---- MODULE Spec2Model ----
(***************************************************************************)
(* Model of the pagination / bounded-concurrency core of the Linear       *)
(* scripts: paginate and mapLimit (workspaceSnapshot.ts,                   *)
(* customerRequests.ts, customerRequests-server.ts),                       *)
(* listIssuesPaginated and resolveRelation (listIssuesPaginated.ts),       *)
(* the aggregation helpers and fetchOpenIssues (workspaceSnapshot.ts),     *)
(* main of myIssues.ts and the GET /api/issues handler of the              *)
(* customer-requests server.                                               *)
(***************************************************************************)
EXTENDS Integers, Sequences, FiniteSets, TLC

(* ------------------------------ bounds --------------------------------- *)
\* most fetch calls one run may issue
MaxPages == 3
\* most nodes the server puts in one page
MaxPageLen == 2
\* longest items list handed to mapLimit
MaxItems == 4
\* largest limit handed to mapLimit
MaxLimit == 3
\* most issues handed to groupIssuesByProjectThenState or computeActiveProjects
MaxIssues == 3
\* most issues handed to computeAssigneeLoad
MaxLoadIssues == 5
\* the server's first MaxArchivable issues may be archived ones
MaxArchivable == 3
\* most linear.issues calls one GET /api/issues request may issue
MaxApiPages == 11
\* webhook requests, SSE clients and /dev/ping requests of a webhook-server run
MaxWebhooks == 1
MaxSseClients == 1
MaxPings == 1
\* most open issues of a workspace-snapshot run
MaxSnapIssues == 41
\* most issues handed to a sequence of helper calls, most calls of a sequence
MaxCallIssues == 3
MaxCalls == 3
\* most issues the server returns to one issuesFiltered run
MaxFilterIssues == 3
\* SSE connections and emitRun calls of a customer-requests server run
MaxRunClients == 2
MaxRunEvents == 2

(* ------------------------- program constants --------------------------- *)
\* Math.max(1, Math.min(500, Number(req.query.limit ?? 200)))
LimitFloor == 1
LimitCeiling == 500
DefaultLimit == 200
\* linear.issues({ first: 50, ... })
First == 50
\* fetched < 500
FetchedCap == 500
\* fetchOpenIssues: const CONCURRENCY = 10
CONCURRENCY == 10

(* --------------------------- JavaScript values ------------------------- *)
\* null, undefined and strings, as the cursor type string | null | undefined
Null == [t |-> "null", s |-> ""]
Undefined == [t |-> "undefined", s |-> ""]
Str(s) == [t |-> "string", s |-> s]

\* the cursors a server may put in pageInfo.endCursor (endCursor?: string | null)
CursorStrings == {"", "c1", "c2"}
EndCursors == {Null, Undefined} \cup {Str(s) : s \in CursorStrings}

\* errors a fetch may reject with
FetchErrors == {"E1", "E2"}

\* JavaScript truthiness of a cursor value, as tested by while (after)
Truthy(v) == v.t = "string" /\ v.s # ""

\* a ?? d
Coalesce(a, d) == IF a.t \in {"null", "undefined"} THEN d ELSE a

\* no index: indices are 0-based as in the source
NoIdx == 0 - 1
\* an unset slot of new Array(n); worker values and errors are tuples
Empty == <<>>
MPending == [state |-> "pending", error |-> Empty]

\* JavaScript values a relation can be, besides null and undefined: resolved
\* objects, primitives, a promise, an object with a then method, a function
Obj(s) == [t |-> "object", s |-> s]
Num(s) == [t |-> "number", s |-> s]
Bool(s) == [t |-> "boolean", s |-> s]
Concrete ==
  {Obj("o1"), Obj("o2"), Num("0"), Num("7"), Num("NaN"), Str(""), Str("x"),
   Bool("false"), Bool("true")}
Thenables == {[t |-> "promise", s |-> "p1"], [t |-> "thenable", s |-> "t1"]}
Functions == {[t |-> "function", s |-> "f1"], [t |-> "function", s |-> "f2"]}
Relations == {Null, Undefined} \cup Concrete \cup Thenables \cup Functions

\* what a promise can fulfil with, and what a relation can throw or reject with
Settled == {Null, Undefined} \cup Concrete
Thrown == {"boom", "denied"}

\* !v
Not(v) ==
  \/ v.t \in {"null", "undefined"}
  \/ v.t = "string" /\ v.s = ""
  \/ v.t = "number" /\ v.s \in {"0", "NaN"}
  \/ v.t = "boolean" /\ v.s = "false"

\* typeof v === "function"; typeof v.then === "function"
IsFunction(v) == v.t = "function"
HasThen(v) == v.t \in {"promise", "thenable"}

NoEvent == [kind |-> "none", val |-> Undefined, error |-> "none"]
Event(kind, val, error) == [kind |-> kind, val |-> val, error |-> error]

RPending == [state |-> "pending", val |-> Undefined, error |-> "none"]
RFulfilled(v) == [state |-> "fulfilled", val |-> v, error |-> "none"]
RRejected(e) == [state |-> "rejected", val |-> Undefined, error |-> e]

\* projects[pid] for a pid the lookup has no entry for; the empty lookup
NoProject == [t |-> "undefined", name |-> Null, state |-> Null, archivedAt |-> Null]
NoProjects == [p \in {"p1", "p2", "p3"} |-> NoProject]

\* JavaScript numbers: an integer or NaN
JsNum(v) == [nan |-> FALSE, v |-> v]
NaN == [nan |-> TRUE, v |-> 0]

\* a POST /linear-webhook request not yet received
NoWebhook == [pc |-> "none", signature |-> Undefined, rawBody |-> Undefined,
              status |-> 0]

VARIABLES
  fn,         \* the function under execution: "paginate" or "listIssuesPaginated"
  pc,         \* its position: "fetch" (top of the do body), "await" (fetch in
              \* flight), "issues" (per-issue loop), "done", "failed"
  calls,      \* cursor argument of every fetch call issued, in call order
  served,     \* every page a fetch call resolved with, in order
  inflight,   \* fetch calls issued and not yet settled
  out,        \* paginate: const out: T[]
  after,      \* paginate: let after
  cursor,     \* listIssuesPaginated: let cursor
  page,       \* listIssuesPaginated: let page
  totalCount, \* listIssuesPaginated: let totalCount
  todo,       \* listIssuesPaginated: nodes of res.nodes the for loop has not reached
  lastRes,    \* listIssuesPaginated: pageInfo of res
  log,        \* listIssuesPaginated: lines given to logger.log
  fetchErr,   \* the error the failed fetch call rejected with, "none" if none did
  ret         \* the promise the function returned

pvars == <<fn, pc, calls, served, inflight, out, after, cursor, page,
           totalCount, todo, lastRes, log, fetchErr, ret>>

\* one mapLimit(items, limit, worker) invocation
VARIABLES
  mlpc,        \* "idle" before the call, "called" after it
  items,       \* argument items
  limit,       \* argument limit
  i,           \* let i
  active,      \* let active
  result,      \* const result: R[], indices 0..items.length-1, Empty where unset
  wstate,      \* state of the promise worker(items[idx], idx) returned, per idx
  invoked,     \* arguments <<item, idx>> of every worker call, in call order
  jobs,        \* promise reaction jobs queued and not yet run, oldest first
  firstFailed, \* idx of the worker whose promise rejected first, NoIdx if none
  doneOrder,   \* idx of every .then callback that has run, in run order
  mlRet        \* the promise mapLimit returned

mvars == <<mlpc, items, limit, i, active, result, wstate, invoked, jobs,
           firstFailed, doneOrder, mlRet>>

\* one resolveRelation(rel) invocation
VARIABLES
  rel,      \* argument rel
  rrpc,     \* "idle", "start" (called, body not yet run), "await" (suspended at
            \* an await), "done" (returned promise settled)
  rrCalls,  \* number of times rel was invoked
  rrAwait,  \* the operand of the await the body is suspended at
  rrEvent,  \* what the relation did: it threw, its promise fulfilled or rejected
  rrRet     \* the promise resolveRelation returned

rvars == <<rel, rrpc, rrCalls, rrAwait, rrEvent, rrRet>>

\* one call of an aggregation helper of workspaceSnapshot.ts
VARIABLES
  helper,   \* the helper called: "group", "active" or "load"
  issues,   \* argument issues
  projects, \* argument projects (computeActiveProjects)
  aggpc,    \* "idle", "start" (called), "done" (returned)
  grouped,  \* what groupIssuesByProjectThenState returned
  rows,     \* what computeActiveProjects returned
  load      \* what computeAssigneeLoad returned

avars == <<helper, issues, projects, aggpc, grouped, rows, load>>

\* one fetchOpenIssues(client) call; its paginate call runs on the paginator's
\* variables
VARIABLES
  foVersion,   \* which of the repository's two fetchOpenIssues runs
  fopc,        \* "idle", "paginate" (awaiting paginate), "map" (awaiting
               \* mapLimit), "done"
  archivedIds, \* the issues the server returns with archivedAt set
  openIssues,  \* the issues handed to mapLimit
  foRet        \* the promise fetchOpenIssues returned

fvars == <<foVersion, fopc, archivedIds, openIssues, foRet>>

\* one GET /api/issues request of the customer-requests server
VARIABLES
  apiQuery,      \* req.query.query
  apiLimitParam, \* req.query.limit
  apipc,         \* "idle", "start", "fetch", "await", "respond", "done"
  apiLimit,      \* const limit
  apiAfter,      \* let after
  apiFetched,    \* number of issues fetched so far (nodes.length, result.length)
  apiCalls,      \* number of linear.issues calls issued
  apiMatched,    \* number of issues left by the query filter
  apiStatus,     \* status of the response, 0 before it is sent
  apiSent        \* number of issues in the response

svars == <<apiQuery, apiLimitParam, apipc, apiLimit, apiAfter, apiFetched,
           apiCalls, apiMatched, apiStatus, apiSent>>

\* the procedures modelled after the paginators and mapLimit
xvars == <<rvars, avars, fvars, svars>>

\* the webhook server (webhook-server.ts)
VARIABLES
  clients,    \* let clients: SSEClient[], the id of every entry in list order
  nextId,     \* let nextId
  webhooks,   \* the POST /linear-webhook requests: position of the handler
              \* ("none" not yet received, "issue", "state", "team" suspended at
              \* that await, "done"), Linear-Signature header, req.rawBody and
              \* the status answered (0 before the answer)
  pings,      \* number of POST /dev/ping requests served
  broadcasts, \* payload of every broadcastEvent call, in call order
  sseWrites   \* every res.write to an SSE client, in order: client id, payload

wvars == <<clients, nextId, webhooks, pings, broadcasts, sseWrites>>

\* one workspace-snapshot run (main of workspaceSnapshot.ts) from the return of
\* paginate on, by the numbers of requests
VARIABLES
  snapPc,               \* "idle", "start", "issues" (awaiting mapLimit),
                        \* "projects" (awaiting fetchProjectsById), "done",
                        \* "failed" (process.exit(1))
  snapIssues,           \* rawIssues.length
  snapPattern,          \* how the issues are spread over projects
  snapNext,             \* mapLimit's i
  snapWorkers,          \* active workers by number of lookups in flight (1..4)
  snapProjectsInFlight, \* client.project(pid) calls not yet settled
  snapProjectsDone      \* number of entries of out

kvars == <<snapPc, snapIssues, snapPattern, snapNext, snapWorkers,
           snapProjectsInFlight, snapProjectsDone>>

\* a sequence of calls of the aggregation helpers on the same arguments
VARIABLES
  givenIssues,   \* the issues list as it was built
  givenProjects, \* the projects lookup as it was built
  argIssues,     \* the issues list now
  argProjects,   \* the projects lookup now
  returns        \* helper and return value of every call, in call order

hvars == <<givenIssues, givenProjects, argIssues, argProjects, returns>>

\* one run of main of issuesFiltered
VARIABLES
  labelName,     \* const labelName = getArg("label")
  wantedState,   \* const wantedState = getArg("state")
  ifIssues,      \* the issues the server holds for the query, in order
  ifPageLen,     \* number of issues the server puts in a page
  ifPc,          \* "idle", "fetch" (awaiting client.issues), "issue" (top of
                 \* the for body), "label" (awaiting issueHasLabelByName),
                 \* "filter" (awaiting issueStateName in step 22), "count"
                 \* (awaiting issueStateName in step 23), "done", "failed"
  ifPage,        \* number of pages fetched
  ifIdx,         \* the issue the for loop is at
  stateResolves, \* per issue, number of times its state relation was resolved
  labelCalls,    \* per issue, number of issue.labels() calls
  counts,        \* const counts = new Map<string, number>()
  totalFetched,  \* let totalFetched
  totalMatched   \* let totalMatched

ivars == <<labelName, wantedState, ifIssues, ifPageLen, ifPc, ifPage, ifIdx,
           stateResolves, labelCalls, counts, totalFetched, totalMatched>>

\* the run-event streams of the customer-requests server
VARIABLES
  runStreams,   \* const runStreams = new Map<string, RunClient[]>()
  nextClientId, \* let nextClientId
  connections,  \* every GET /run-events connection accepted, in order
  emitted,      \* runId and kind of every emitRun call, in call order
  runs          \* per run id: "none", "running", "errored", "over"

evars == <<runStreams, nextClientId, connections, emitted, runs>>

\* the servers and scripts modelled after GET /api/issues
zvars == <<wvars, kvars, hvars, ivars, evars>>

vars == <<pvars, mvars, xvars, zvars>>

Pending == [state |-> "pending", items |-> <<>>, count |-> 0, error |-> "none"]
Fulfilled(nodes, count) ==
  [state |-> "fulfilled", items |-> nodes, count |-> count, error |-> "none"]
\* faulty variant: the failure is caught and an empty result returned
RejectedAsEmpty(e) ==
  [state |-> "fulfilled", items |-> <<>>, count |-> 0, error |-> "none"]
Rejected(e) == [state |-> "rejected", items |-> <<>>, count |-> 0, error |-> e]

\* The nodes served so far, flattened: node ids are issued 1, 2, 3, ... so that
\* every node of a run is distinct (paginate is generic in T and never looks
\* inside a node).
RECURSIVE Flatten(_)
Flatten(ps) == IF ps = <<>> THEN <<>> ELSE Head(ps).nodes \o Flatten(Tail(ps))

FreshNodes(n) == [k \in 1..n |-> Len(Flatten(served)) + k]

\* the pages a fetch call may resolve with
PagesNow ==
  { [nodes |-> FreshNodes(n), hasNextPage |-> h, endCursor |-> c] :
      n \in 0..MaxPageLen, h \in BOOLEAN, c \in EndCursors }

(* ------------------------------ paginate ------------------------------- *)
\* after = page.pageInfo.hasNextPage ? (page.pageInfo.endCursor ?? null) : null
\* (faulty variant: hasNextPage is not consulted)
NextAfterAnyCursor(p) == Coalesce(p.endCursor, Null)
NextAfter(p) == IF p.hasNextPage THEN Coalesce(p.endCursor, Null) ELSE Null

\* out.push(...page.nodes)
\* (faulty variant: unshift instead of push)
PushAllFront(acc, nodes) == nodes \o acc
PushAll(acc, nodes) == acc \o nodes

\* the do body is entered only from its top: the next fetch is issued after the
\* previous await has resumed
\* (faulty variant: the fetch is not awaited before the next one)
AtFetchEager == pc \in {"fetch", "await"}
AtFetch == pc = "fetch"

\* no try/catch around await fetch(after): the error leaves the async function,
\* whose promise rejects with it; out is dropped
\* (faulty variant: the error is caught and the partial out returned)
OnFetchErrorPartial(acc, e) == Fulfilled(acc, 0)
OnFetchError(acc, e) == Rejected(e)

\* const page = await fetch(after)   -- the call
PaginateFetch ==
  /\ fn = "paginate" /\ AtFetch
  /\ Len(calls) < MaxPages
  /\ calls' = Append(calls, after)
  /\ inflight' = inflight + 1
  /\ pc' = "await"
  /\ UNCHANGED <<fn, served, out, after, cursor, page, totalCount, todo,
                 lastRes, log, fetchErr, ret>>
  /\ UNCHANGED <<mvars, xvars, zvars>>

\* ... the await resumes with a page; push, advance the cursor, test while (after)
PaginateFetchResolve ==
  /\ fn = "paginate" /\ pc = "await"
  /\ \E p \in PagesNow :
       /\ served' = Append(served, p)
       /\ out' = PushAll(out, p.nodes)
       /\ after' = NextAfter(p)
       /\ IF Truthy(NextAfter(p))
            THEN pc' = "fetch" /\ ret' = ret
            ELSE pc' = "done" /\ ret' = Fulfilled(PushAll(out, p.nodes), 0)
  /\ inflight' = inflight - 1
  /\ UNCHANGED <<fn, calls, cursor, page, totalCount, todo, lastRes, log,
                 fetchErr>>
  /\ UNCHANGED <<mvars, xvars, zvars>>

\* ... the await throws: the async function rejects with the fetch's error
PaginateFetchReject ==
  /\ fn = "paginate" /\ pc = "await"
  /\ \E e \in FetchErrors : fetchErr' = e /\ ret' = OnFetchError(out, e)
  /\ inflight' = inflight - 1
  /\ pc' = "failed"
  /\ UNCHANGED <<fn, calls, served, out, after, cursor, page, totalCount,
                 todo, lastRes, log>>
  /\ UNCHANGED <<mvars, xvars, zvars>>

(* ------------------------- listIssuesPaginated ------------------------- *)
\* errors a relation lookup may reject with
RelationErrors == {"R1"}

\* logger.log(`Page ${page} — ${count} issue${count !== 1 ? "s" : ""}`)
\* faulty variant: every header carries page number 1
PageHeaderFirst(n, count) ==
  [kind |-> "page", n |-> 1, count |-> count, plural |-> (count # 1)]
PageHeader(n, count) == [kind |-> "page", n |-> n, count |-> count, plural |-> (count # 1)]
\* logger.log(formatIssueLine(issue, state, project, assignee))
IssueLine(node) == [kind |-> "issue", n |-> node, count |-> 0, plural |-> FALSE]
\* logger.log(`\nTotal issues listed: ${totalCount}`)
TotalLine(n) == [kind |-> "total", n |-> n, count |-> 0, plural |-> FALSE]

\* cursor = res.pageInfo.hasNextPage ? res.pageInfo.endCursor : null
NextCursor(pi) == IF pi.hasNextPage THEN pi.endCursor ELSE Null

\* the argument after: cursor ?? undefined
\* (faulty variant: the cursor is not passed on)
AfterArgDropped(c) == Undefined
AfterArg(c) == Coalesce(c, Undefined)

\* const res = await client.issues({ first: pageSize, after: cursor ?? undefined })
ListFetch ==
  /\ fn = "listIssuesPaginated" /\ pc = "fetch"
  /\ Len(calls) < MaxPages
  /\ calls' = Append(calls, AfterArg(cursor))
  /\ inflight' = inflight + 1
  /\ pc' = "await"
  /\ UNCHANGED <<fn, served, out, after, cursor, page, totalCount, todo,
                 lastRes, log, fetchErr, ret>>
  /\ UNCHANGED <<mvars, xvars, zvars>>

\* ... the await resumes: log the page header and enter the for loop
ListFetchResolve ==
  /\ fn = "listIssuesPaginated" /\ pc = "await"
  /\ \E p \in PagesNow :
       /\ served' = Append(served, p)
       /\ log' = Append(log, PageHeader(page, Len(p.nodes)))
       /\ todo' = p.nodes
       /\ lastRes' = [hasNextPage |-> p.hasNextPage, endCursor |-> p.endCursor]
  /\ inflight' = inflight - 1
  /\ pc' = "issues"
  /\ UNCHANGED <<fn, calls, out, after, cursor, page, totalCount, fetchErr,
                 ret>>
  /\ UNCHANGED <<mvars, xvars, zvars>>

\* ... the await throws
ListFetchReject ==
  /\ fn = "listIssuesPaginated" /\ pc = "await"
  /\ \E e \in FetchErrors : fetchErr' = e /\ ret' = Rejected(e)
  /\ inflight' = inflight - 1
  /\ pc' = "failed"
  /\ UNCHANGED <<fn, calls, served, out, after, cursor, page, totalCount,
                 todo, lastRes, log>>
  /\ UNCHANGED <<mvars, xvars, zvars>>

\* one turn of for (const issue of res.nodes): count it, resolve its relations,
\* log its line
ListIssue ==
  /\ fn = "listIssuesPaginated" /\ pc = "issues" /\ todo # <<>>
  /\ totalCount' = totalCount + 1
  /\ log' = Append(log, IssueLine(Head(todo)))
  /\ todo' = Tail(todo)
  /\ UNCHANGED <<fn, pc, calls, served, inflight, out, after, cursor, page,
                 lastRes, fetchErr, ret>>
  /\ UNCHANGED <<mvars, xvars, zvars>>

\* ... or a relation lookup rejects inside Promise.all
ListIssueReject ==
  /\ fn = "listIssuesPaginated" /\ pc = "issues" /\ todo # <<>>
  /\ totalCount' = totalCount + 1
  /\ \E e \in RelationErrors : ret' = Rejected(e)
  /\ pc' = "failed"
  /\ UNCHANGED <<fn, calls, served, inflight, out, after, cursor, page, todo,
                 lastRes, log, fetchErr>>
  /\ UNCHANGED <<mvars, xvars, zvars>>

\* after the for loop: advance the cursor, page += 1, test while (cursor);
\* on exit log the total and return it
ListPageEnd ==
  /\ fn = "listIssuesPaginated" /\ pc = "issues" /\ todo = <<>>
  /\ cursor' = NextCursor(lastRes)
  /\ page' = page + 1
  /\ IF Truthy(NextCursor(lastRes))
       THEN pc' = "fetch" /\ log' = log /\ ret' = ret
       ELSE /\ pc' = "done"
            /\ log' = Append(log, TotalLine(totalCount))
            /\ ret' = Fulfilled(<<>>, totalCount)
  /\ UNCHANGED <<fn, calls, served, inflight, out, after, totalCount, todo,
                 lastRes, fetchErr>>
  /\ UNCHANGED <<mvars, xvars, zvars>>

\* one call of paginate or of listIssuesPaginated, its locals initialised;
\* no mapLimit runs
PInit ==
  /\ fn \in {"paginate", "listIssuesPaginated"}
  /\ pc = "fetch"
  /\ calls = <<>> /\ served = <<>> /\ inflight = 0
  /\ out = <<>> /\ after = Null
  /\ cursor = Undefined /\ page = 1 /\ totalCount = 0
  /\ todo = <<>> /\ lastRes = [hasNextPage |-> FALSE, endCursor |-> Null]
  /\ log = <<>> /\ fetchErr = "none"
  /\ ret = Pending
  /\ mlpc = "idle" /\ items = <<>> /\ limit = 0 /\ i = 0 /\ active = 0
  /\ result = <<>> /\ wstate = <<>> /\ invoked = <<>> /\ jobs = <<>>
  /\ firstFailed = NoIdx /\ doneOrder = <<>> /\ mlRet = MPending
  /\ rel = Undefined /\ rrpc = "idle" /\ rrCalls = 0
  /\ rrAwait = Undefined /\ rrEvent = NoEvent /\ rrRet = RPending
  /\ helper = "none" /\ issues = <<>> /\ projects = NoProjects
  /\ aggpc = "idle" /\ grouped = <<>> /\ rows = <<>> /\ load = <<>>
  /\ foVersion = "none" /\ fopc = "idle" /\ archivedIds = {}
  /\ openIssues = <<>> /\ foRet = Pending
  /\ apiQuery = Undefined /\ apiLimitParam = Undefined /\ apipc = "idle"
  /\ apiLimit = NaN /\ apiAfter = Null /\ apiFetched = 0 /\ apiCalls = 0
  /\ apiMatched = 0 /\ apiStatus = 0 /\ apiSent = 0
  /\ clients = <<>> /\ nextId = 1
  /\ webhooks = [r \in 1..MaxWebhooks |-> NoWebhook]
  /\ pings = 0 /\ broadcasts = <<>> /\ sseWrites = <<>>
  /\ snapPc = "idle" /\ snapIssues = 0 /\ snapPattern = "none"
  /\ snapNext = 0 /\ snapWorkers = [j \in 1..4 |-> 0]
  /\ snapProjectsInFlight = 0 /\ snapProjectsDone = 0
  /\ givenIssues = <<>> /\ givenProjects = NoProjects
  /\ argIssues = <<>> /\ argProjects = NoProjects /\ returns = <<>>
  /\ labelName = Undefined /\ wantedState = Undefined /\ ifIssues = <<>>
  /\ ifPageLen = 1 /\ ifPc = "idle" /\ ifPage = 0 /\ ifIdx = 0
  /\ stateResolves = <<>> /\ labelCalls = <<>>
  /\ counts = <<>> /\ totalFetched = 0 /\ totalMatched = 0
  /\ runStreams = <<>> /\ nextClientId = 1
  /\ connections = <<>> /\ emitted = <<>>
  /\ runs = [r \in {"r1", "r2"} |-> "none"]

PNext ==
  \/ PaginateFetch \/ PaginateFetchResolve \/ PaginateFetchReject
  \/ ListFetch \/ ListFetchResolve \/ ListFetchReject
  \/ ListIssue \/ ListIssueReject \/ ListPageEnd

SpecPaginate == PInit /\ [][PNext]_vars

(* ------------------------------ mapLimit ------------------------------- *)
\* items is generic in T: the k-th item is a token of its own
ItemAt(k) == <<"item", k>>
\* what worker(item, idx) resolves with, and what it rejects with: mapLimit is
\* generic in R, so every call has a value and an error of its own
WorkerVal(item, idx) == <<"val", item, idx>>
WorkerErr(item, idx) == <<"err", item, idx>>

\* resolve and reject of new Promise((resolve, reject) => ...): the first call
\* settles the promise, later calls do nothing
Resolve(p) == IF p.state = "pending" THEN [state |-> "fulfilled", error |-> Empty] ELSE p
\* (faulty variant: a later reject overwrites the outcome)
RejectLastWins(p, e) == [state |-> "rejected", error |-> e]
Reject(p, e) == IF p.state = "pending" THEN [state |-> "rejected", error |-> e] ELSE p

\* if (i >= items.length && active === 0) return resolve(result)
\* (faulty variant: > for >=)
PumpDoneStrict(st) == st.i > Len(items) /\ st.active = 0
PumpDone(st) == st.i >= Len(items) /\ st.active = 0

\* while (active < limit && i < items.length)
\* (faulty variant: <= for <)
CanStartOffByOne(st) == st.active <= limit /\ st.i < Len(items)
CanStart(st) == st.active < limit /\ st.i < Len(items)

\* const idx = i++; active++; worker(items[idx], idx)
\* (faulty variant: the worker is handed i, already incremented, for idx)
StartWorkerNextIndex(st) ==
  [st EXCEPT !.i = st.i + 1,
             !.active = st.active + 1,
             !.wstate = [k \in 0..st.i |-> IF k = st.i THEN "running" ELSE st.wstate[k]],
             !.invoked = Append(st.invoked, <<items[st.i + 1], st.i + 1>>)]
StartWorker(st) ==
  [st EXCEPT !.i = st.i + 1,
             !.active = st.active + 1,
             !.wstate = [k \in 0..st.i |-> IF k = st.i THEN "running" ELSE st.wstate[k]],
             !.invoked = Append(st.invoked, <<items[st.i + 1], st.i>>)]

\* (faulty variant: if for while)
PumpLoopOnce(st) == IF CanStart(st) THEN StartWorker(st) ELSE st
RECURSIVE PumpLoop(_)
PumpLoop(st) == IF CanStart(st) THEN PumpLoop(StartWorker(st)) ELSE st

\* const pump = () => { ... }
Pump(st) ==
  IF PumpDone(st) THEN [st EXCEPT !.ret = Resolve(st.ret)] ELSE PumpLoop(st)

\* result[idx] = val
\* (faulty variant: values are stored in completion order)
StoreResultPush(res, idx, val) ==
  LET free == {k \in DOMAIN res : res[k] = Empty}
      slot == CHOOSE k \in free : \A j \in free : k <= j
  IN [res EXCEPT ![slot] = val]
StoreResult(res, idx, val) == [res EXCEPT ![idx] = val]

\* the locals pump reads and writes
PumpState == [i |-> i, active |-> active, wstate |-> wstate,
              invoked |-> invoked, ret |-> mlRet]

\* mapLimit(items, limit, worker): new Array(items.length), i = 0, active = 0,
\* and the promise executor's first pump()
MapLimitCall ==
  /\ mlpc = "idle"
  /\ mlpc' = "called"
  /\ result' = [k \in 0..(Len(items) - 1) |-> Empty]
  /\ LET st == Pump([i |-> 0, active |-> 0, wstate |-> <<>>,
                     invoked |-> <<>>, ret |-> MPending])
     IN /\ i' = st.i /\ active' = st.active /\ wstate' = st.wstate
        /\ invoked' = st.invoked /\ mlRet' = st.ret
  /\ UNCHANGED <<items, limit, jobs, firstFailed, doneOrder>>
  /\ UNCHANGED <<pvars, xvars, zvars>>

\* the promise of worker idx is fulfilled: its .then callback is queued
WorkerFulfil(idx) ==
  /\ mlpc = "called"
  /\ idx \in DOMAIN wstate /\ wstate[idx] = "running"
  /\ wstate' = [wstate EXCEPT ![idx] = "fulfilled"]
  /\ jobs' = Append(jobs, [kind |-> "then", idx |-> idx,
                           val |-> WorkerVal(items[idx + 1], idx)])
  /\ UNCHANGED <<mlpc, items, limit, i, active, result, invoked, firstFailed,
                 doneOrder, mlRet>>
  /\ UNCHANGED <<pvars, xvars, zvars>>

\* the promise of worker idx is rejected: .then has no rejection handler, so
\* the rejection is handed on to the promise .then returned
WorkerReject(idx) ==
  /\ mlpc = "called"
  /\ idx \in DOMAIN wstate /\ wstate[idx] = "running"
  /\ wstate' = [wstate EXCEPT ![idx] = "rejected"]
  /\ firstFailed' = IF firstFailed = NoIdx THEN idx ELSE firstFailed
  /\ jobs' = Append(jobs, [kind |-> "passthrough", idx |-> idx,
                           val |-> WorkerErr(items[idx + 1], idx)])
  /\ UNCHANGED <<mlpc, items, limit, i, active, result, invoked, doneOrder,
                 mlRet>>
  /\ UNCHANGED <<pvars, xvars, zvars>>

\* .then((val) => { result[idx] = val; active--; pump(); })
RunThen ==
  /\ jobs # <<>> /\ Head(jobs).kind = "then"
  /\ result' = StoreResult(result, Head(jobs).idx, Head(jobs).val)
  /\ LET st == Pump([PumpState EXCEPT !.active = active - 1])
     IN /\ i' = st.i /\ active' = st.active /\ wstate' = st.wstate
        /\ invoked' = st.invoked /\ mlRet' = st.ret
  /\ jobs' = Tail(jobs)
  /\ doneOrder' = Append(doneOrder, Head(jobs).idx)
  /\ UNCHANGED <<mlpc, items, limit, firstFailed>>
  /\ UNCHANGED <<pvars, xvars, zvars>>

\* the promise .then returned is rejected: its .catch handler is queued
RunPassthrough ==
  /\ jobs # <<>> /\ Head(jobs).kind = "passthrough"
  /\ jobs' = Append(Tail(jobs), [Head(jobs) EXCEPT !.kind = "catch"])
  /\ UNCHANGED <<mlpc, items, limit, i, active, result, wstate, invoked,
                 firstFailed, doneOrder, mlRet>>
  /\ UNCHANGED <<pvars, xvars, zvars>>

\* .catch(reject)
RunCatch ==
  /\ jobs # <<>> /\ Head(jobs).kind = "catch"
  /\ mlRet' = Reject(mlRet, Head(jobs).val)
  /\ jobs' = Tail(jobs)
  /\ UNCHANGED <<mlpc, items, limit, i, active, result, wstate, invoked,
                 firstFailed, doneOrder>>
  /\ UNCHANGED <<pvars, xvars, zvars>>

\* the arguments of one mapLimit call; no paginator runs
MInit ==
  /\ mlpc = "idle"
  /\ \E n \in 0..MaxItems : items = [k \in 1..n |-> ItemAt(k)]
  /\ limit \in 0..MaxLimit
  /\ i = 0 /\ active = 0
  /\ result = <<>> /\ wstate = <<>> /\ invoked = <<>> /\ jobs = <<>>
  /\ firstFailed = NoIdx /\ doneOrder = <<>> /\ mlRet = MPending
  /\ fn = "none" /\ pc = "done"
  /\ calls = <<>> /\ served = <<>> /\ inflight = 0
  /\ out = <<>> /\ after = Null
  /\ cursor = Undefined /\ page = 1 /\ totalCount = 0
  /\ todo = <<>> /\ lastRes = [hasNextPage |-> FALSE, endCursor |-> Null]
  /\ log = <<>> /\ fetchErr = "none"
  /\ ret = Pending
  /\ rel = Undefined /\ rrpc = "idle" /\ rrCalls = 0
  /\ rrAwait = Undefined /\ rrEvent = NoEvent /\ rrRet = RPending
  /\ helper = "none" /\ issues = <<>> /\ projects = NoProjects
  /\ aggpc = "idle" /\ grouped = <<>> /\ rows = <<>> /\ load = <<>>
  /\ foVersion = "none" /\ fopc = "idle" /\ archivedIds = {}
  /\ openIssues = <<>> /\ foRet = Pending
  /\ apiQuery = Undefined /\ apiLimitParam = Undefined /\ apipc = "idle"
  /\ apiLimit = NaN /\ apiAfter = Null /\ apiFetched = 0 /\ apiCalls = 0
  /\ apiMatched = 0 /\ apiStatus = 0 /\ apiSent = 0
  /\ clients = <<>> /\ nextId = 1
  /\ webhooks = [r \in 1..MaxWebhooks |-> NoWebhook]
  /\ pings = 0 /\ broadcasts = <<>> /\ sseWrites = <<>>
  /\ snapPc = "idle" /\ snapIssues = 0 /\ snapPattern = "none"
  /\ snapNext = 0 /\ snapWorkers = [j \in 1..4 |-> 0]
  /\ snapProjectsInFlight = 0 /\ snapProjectsDone = 0
  /\ givenIssues = <<>> /\ givenProjects = NoProjects
  /\ argIssues = <<>> /\ argProjects = NoProjects /\ returns = <<>>
  /\ labelName = Undefined /\ wantedState = Undefined /\ ifIssues = <<>>
  /\ ifPageLen = 1 /\ ifPc = "idle" /\ ifPage = 0 /\ ifIdx = 0
  /\ stateResolves = <<>> /\ labelCalls = <<>>
  /\ counts = <<>> /\ totalFetched = 0 /\ totalMatched = 0
  /\ runStreams = <<>> /\ nextClientId = 1
  /\ connections = <<>> /\ emitted = <<>>
  /\ runs = [r \in {"r1", "r2"} |-> "none"]

MNext ==
  \/ MapLimitCall
  \/ \E idx \in 0..(MaxItems - 1) : WorkerFulfil(idx)
  \/ \E idx \in 0..(MaxItems - 1) : WorkerReject(idx)
  \/ RunThen
  \/ RunPassthrough
  \/ RunCatch

SpecMapLimit == MInit /\ [][MNext]_vars

\* queued promise reaction jobs are always run: the job queue is drained
\* before the event loop takes the next task
RunJob == RunThen \/ RunPassthrough \/ RunCatch
FairSpecMapLimit == SpecMapLimit /\ WF_vars(RunJob)

\* a run in which, besides, every worker promise is eventually settled
SettleWorker(idx) == WorkerFulfil(idx) \/ WorkerReject(idx)
SettlingSpecMapLimit ==
  /\ SpecMapLimit
  /\ WF_vars(RunJob)
  /\ \A idx \in 0..(MaxItems - 1) : WF_vars(SettleWorker(idx))

(* -------------------------------- myIssues ----------------------------- *)
\* console.log lines of main
ViewerLine == [kind |-> "viewer", num |-> 0, node |-> 0]
HeadingLine == [kind |-> "heading", num |-> 0, node |-> 0]
\* console.log(`${totalCount}. ${identifier} ${title} [${state}]`)
NumberedLine(num, node) == [kind |-> "issue", num |-> num, node |-> node]
\* console.log(`\nTotal issues: ${totalCount}`)
MyTotalLine(num) == [kind |-> "total", num |-> num, node |-> 0]

\* the number in front of an issue: totalCount, read after totalCount += 1
\* faulty variant: the line is built before the increment
PrintedNumberBefore(count) == count - 1
PrintedNumber(count) == count

\* const me = await client.viewer; the two heading lines
MyViewer ==
  /\ fn = "myIssues" /\ pc = "viewer"
  /\ log' = log \o <<ViewerLine, HeadingLine>>
  /\ pc' = "fetch"
  /\ UNCHANGED <<fn, calls, served, inflight, out, after, cursor, page,
                 totalCount, todo, lastRes, fetchErr, ret>>
  /\ UNCHANGED <<mvars, xvars, zvars>>

\* await client.viewer throws: main() rejects
MyViewerReject ==
  /\ fn = "myIssues" /\ pc = "viewer"
  /\ \E e \in FetchErrors : fetchErr' = e /\ ret' = Rejected(e)
  /\ pc' = "failed"
  /\ UNCHANGED <<fn, calls, served, inflight, out, after, cursor, page,
                 totalCount, todo, lastRes, log>>
  /\ UNCHANGED <<mvars, xvars, zvars>>

\* const page = await client.issues({ first: 50, after: cursor ?? undefined, ... })
MyFetch ==
  /\ fn = "myIssues" /\ pc = "fetch"
  /\ Len(calls) < MaxPages
  /\ calls' = Append(calls, AfterArg(cursor))
  /\ inflight' = inflight + 1
  /\ pc' = "await"
  /\ UNCHANGED <<fn, served, out, after, cursor, page, totalCount, todo,
                 lastRes, log, fetchErr, ret>>
  /\ UNCHANGED <<mvars, xvars, zvars>>

\* ... the await resumes: enter the for loop
MyFetchResolve ==
  /\ fn = "myIssues" /\ pc = "await"
  /\ \E p \in PagesNow :
       /\ served' = Append(served, p)
       /\ todo' = p.nodes
       /\ lastRes' = [hasNextPage |-> p.hasNextPage, endCursor |-> p.endCursor]
  /\ inflight' = inflight - 1
  /\ pc' = "issues"
  /\ UNCHANGED <<fn, calls, out, after, cursor, page, totalCount, log,
                 fetchErr, ret>>
  /\ UNCHANGED <<mvars, xvars, zvars>>

\* ... the await throws
MyFetchReject ==
  /\ fn = "myIssues" /\ pc = "await"
  /\ \E e \in FetchErrors : fetchErr' = e /\ ret' = Rejected(e)
  /\ inflight' = inflight - 1
  /\ pc' = "failed"
  /\ UNCHANGED <<fn, calls, served, out, after, cursor, page, totalCount,
                 todo, lastRes, log>>
  /\ UNCHANGED <<mvars, xvars, zvars>>

\* one turn of for (const issue of page.nodes): count it, resolve its state,
\* print its numbered line
MyIssue ==
  /\ fn = "myIssues" /\ pc = "issues" /\ todo # <<>>
  /\ totalCount' = totalCount + 1
  /\ log' = Append(log, NumberedLine(PrintedNumber(totalCount + 1), Head(todo)))
  /\ todo' = Tail(todo)
  /\ UNCHANGED <<fn, pc, calls, served, inflight, out, after, cursor, page,
                 lastRes, fetchErr, ret>>
  /\ UNCHANGED <<mvars, xvars, zvars>>

\* ... or await resolveRelation(issue.state) throws
MyIssueReject ==
  /\ fn = "myIssues" /\ pc = "issues" /\ todo # <<>>
  /\ totalCount' = totalCount + 1
  /\ \E e \in RelationErrors : ret' = Rejected(e)
  /\ pc' = "failed"
  /\ UNCHANGED <<fn, calls, served, inflight, out, after, cursor, page, todo,
                 lastRes, log, fetchErr>>
  /\ UNCHANGED <<mvars, xvars, zvars>>

\* after the for loop: advance the cursor, test while (cursor); on exit print
\* the total
MyPageEnd ==
  /\ fn = "myIssues" /\ pc = "issues" /\ todo = <<>>
  /\ cursor' = NextCursor(lastRes)
  /\ IF Truthy(NextCursor(lastRes))
       THEN pc' = "fetch" /\ log' = log /\ ret' = ret
       ELSE /\ pc' = "done"
            /\ log' = Append(log, MyTotalLine(totalCount))
            /\ ret' = Fulfilled(<<>>, 0)
  /\ UNCHANGED <<fn, calls, served, inflight, out, after, page, totalCount,
                 todo, lastRes, fetchErr>>
  /\ UNCHANGED <<mvars, xvars, zvars>>

\* one run of main of myIssues.ts
YInit ==
  /\ fn = "myIssues" /\ pc = "viewer"
  /\ calls = <<>> /\ served = <<>> /\ inflight = 0
  /\ out = <<>> /\ after = Null
  /\ cursor = Undefined /\ page = 1 /\ totalCount = 0
  /\ todo = <<>> /\ lastRes = [hasNextPage |-> FALSE, endCursor |-> Null]
  /\ log = <<>> /\ fetchErr = "none"
  /\ ret = Pending
  /\ mlpc = "idle" /\ items = <<>> /\ limit = 0
  /\ i = 0 /\ active = 0
  /\ result = <<>> /\ wstate = <<>> /\ invoked = <<>> /\ jobs = <<>>
  /\ firstFailed = NoIdx /\ doneOrder = <<>> /\ mlRet = MPending
  /\ rel = Undefined /\ rrpc = "idle" /\ rrCalls = 0
  /\ rrAwait = Undefined /\ rrEvent = NoEvent /\ rrRet = RPending
  /\ helper = "none" /\ issues = <<>> /\ projects = NoProjects
  /\ aggpc = "idle" /\ grouped = <<>> /\ rows = <<>> /\ load = <<>>
  /\ foVersion = "none" /\ fopc = "idle" /\ archivedIds = {}
  /\ openIssues = <<>> /\ foRet = Pending
  /\ apiQuery = Undefined /\ apiLimitParam = Undefined /\ apipc = "idle"
  /\ apiLimit = NaN /\ apiAfter = Null /\ apiFetched = 0 /\ apiCalls = 0
  /\ apiMatched = 0 /\ apiStatus = 0 /\ apiSent = 0
  /\ clients = <<>> /\ nextId = 1
  /\ webhooks = [r \in 1..MaxWebhooks |-> NoWebhook]
  /\ pings = 0 /\ broadcasts = <<>> /\ sseWrites = <<>>
  /\ snapPc = "idle" /\ snapIssues = 0 /\ snapPattern = "none"
  /\ snapNext = 0 /\ snapWorkers = [j \in 1..4 |-> 0]
  /\ snapProjectsInFlight = 0 /\ snapProjectsDone = 0
  /\ givenIssues = <<>> /\ givenProjects = NoProjects
  /\ argIssues = <<>> /\ argProjects = NoProjects /\ returns = <<>>
  /\ labelName = Undefined /\ wantedState = Undefined /\ ifIssues = <<>>
  /\ ifPageLen = 1 /\ ifPc = "idle" /\ ifPage = 0 /\ ifIdx = 0
  /\ stateResolves = <<>> /\ labelCalls = <<>>
  /\ counts = <<>> /\ totalFetched = 0 /\ totalMatched = 0
  /\ runStreams = <<>> /\ nextClientId = 1
  /\ connections = <<>> /\ emitted = <<>>
  /\ runs = [r \in {"r1", "r2"} |-> "none"]

YNext ==
  \/ MyViewer
  \/ MyViewerReject
  \/ MyFetch
  \/ MyFetchResolve
  \/ MyFetchReject
  \/ MyIssue
  \/ MyIssueReject
  \/ MyPageEnd

SpecMyIssues == YInit /\ [][YNext]_vars

(* ---------------------------- resolveRelation -------------------------- *)
\* the branch of resolveRelation taken for rel, first match wins:
\*   if (!rel) return null;
\*   if (typeof rel === "function") return await rel();
\*   if (typeof rel.then === "function") return await rel;
\*   return rel;
\* faulty variant: a function relation is handed back instead of being invoked
BranchNeverCalls(v) ==
  IF Not(v) THEN "null" ELSE IF HasThen(v) THEN "await" ELSE "self"
Branch(v) ==
  IF Not(v) THEN "null"
  ELSE IF IsFunction(v) THEN "call"
  ELSE IF HasThen(v) THEN "await"
  ELSE "self"

\* an exception inside the async body, or a rejection of the awaited promise,
\* rejects the returned promise: the body has no try/catch
\* faulty variant: the failure is caught and null returned
OnRelationErrorSwallowed(e) == RFulfilled(Null)
OnRelationError(e) == RRejected(e)

\* if (!rel) return null;  ...  return rel;
ResolveReturn ==
  /\ rrpc = "start"
  /\ Branch(rel) \in {"null", "self"}
  /\ rrRet' = RFulfilled(IF Branch(rel) = "null" THEN Null ELSE rel)
  /\ rrpc' = "done"
  /\ UNCHANGED <<rel, rrCalls, rrAwait, rrEvent>>
  /\ UNCHANGED <<pvars, mvars, avars, fvars, svars, zvars>>

\* return await rel;  up to the suspension
ResolveAwaitRel ==
  /\ rrpc = "start"
  /\ Branch(rel) = "await"
  /\ rrAwait' = rel
  /\ rrpc' = "await"
  /\ UNCHANGED <<rel, rrCalls, rrEvent, rrRet>>
  /\ UNCHANGED <<pvars, mvars, avars, fvars, svars, zvars>>

\* return await rel();  rel() returns a value x (a promise, or anything else)
ResolveCallReturns ==
  /\ rrpc = "start"
  /\ Branch(rel) = "call"
  /\ \E x \in Settled \cup Thenables :
       /\ rrAwait' = x
       /\ rrEvent' = Event("returned", x, "none")
  /\ rrCalls' = rrCalls + 1
  /\ rrpc' = "await"
  /\ UNCHANGED <<rel, rrRet>>
  /\ UNCHANGED <<pvars, mvars, avars, fvars, svars, zvars>>

\* return await rel();  rel() throws
ResolveCallThrows ==
  /\ rrpc = "start"
  /\ Branch(rel) = "call"
  /\ \E e \in Thrown :
       /\ rrEvent' = Event("threw", Undefined, e)
       /\ rrRet' = OnRelationError(e)
  /\ rrCalls' = rrCalls + 1
  /\ rrpc' = "done"
  /\ UNCHANGED <<rel, rrAwait>>
  /\ UNCHANGED <<pvars, mvars, avars, fvars, svars, zvars>>

\* the await resumes with a value: the awaited promise fulfilled with v, or the
\* operand was no promise and is the value
ResolveAwaitValue ==
  /\ rrpc = "await"
  /\ \/ /\ HasThen(rrAwait)
        /\ \E v \in Settled :
             /\ rrEvent' = Event("fulfilled", v, "none")
             /\ rrRet' = RFulfilled(v)
     \/ /\ ~HasThen(rrAwait)
        /\ rrRet' = RFulfilled(rrAwait)
        /\ UNCHANGED rrEvent
  /\ rrpc' = "done"
  /\ UNCHANGED <<rel, rrCalls, rrAwait>>
  /\ UNCHANGED <<pvars, mvars, avars, fvars, svars, zvars>>

\* the await resumes with an exception: the awaited promise rejected with e
ResolveAwaitRejects ==
  /\ rrpc = "await"
  /\ HasThen(rrAwait)
  /\ \E e \in Thrown :
       /\ rrEvent' = Event("rejected", Undefined, e)
       /\ rrRet' = OnRelationError(e)
  /\ rrpc' = "done"
  /\ UNCHANGED <<rel, rrCalls, rrAwait>>
  /\ UNCHANGED <<pvars, mvars, avars, fvars, svars, zvars>>

\* one resolveRelation(rel) call with any relation; nothing else runs
RInit ==
  /\ rel \in Relations
  /\ rrpc = "start" /\ rrCalls = 0
  /\ rrAwait = Undefined /\ rrEvent = NoEvent /\ rrRet = RPending
  /\ fn = "none" /\ pc = "done"
  /\ calls = <<>> /\ served = <<>> /\ inflight = 0
  /\ out = <<>> /\ after = Null
  /\ cursor = Undefined /\ page = 1 /\ totalCount = 0
  /\ todo = <<>> /\ lastRes = [hasNextPage |-> FALSE, endCursor |-> Null]
  /\ log = <<>> /\ fetchErr = "none"
  /\ ret = Pending
  /\ mlpc = "idle" /\ items = <<>> /\ limit = 0
  /\ i = 0 /\ active = 0
  /\ result = <<>> /\ wstate = <<>> /\ invoked = <<>> /\ jobs = <<>>
  /\ firstFailed = NoIdx /\ doneOrder = <<>> /\ mlRet = MPending
  /\ helper = "none" /\ issues = <<>> /\ projects = NoProjects
  /\ aggpc = "idle" /\ grouped = <<>> /\ rows = <<>> /\ load = <<>>
  /\ foVersion = "none" /\ fopc = "idle" /\ archivedIds = {}
  /\ openIssues = <<>> /\ foRet = Pending
  /\ apiQuery = Undefined /\ apiLimitParam = Undefined /\ apipc = "idle"
  /\ apiLimit = NaN /\ apiAfter = Null /\ apiFetched = 0 /\ apiCalls = 0
  /\ apiMatched = 0 /\ apiStatus = 0 /\ apiSent = 0
  /\ clients = <<>> /\ nextId = 1
  /\ webhooks = [r \in 1..MaxWebhooks |-> NoWebhook]
  /\ pings = 0 /\ broadcasts = <<>> /\ sseWrites = <<>>
  /\ snapPc = "idle" /\ snapIssues = 0 /\ snapPattern = "none"
  /\ snapNext = 0 /\ snapWorkers = [j \in 1..4 |-> 0]
  /\ snapProjectsInFlight = 0 /\ snapProjectsDone = 0
  /\ givenIssues = <<>> /\ givenProjects = NoProjects
  /\ argIssues = <<>> /\ argProjects = NoProjects /\ returns = <<>>
  /\ labelName = Undefined /\ wantedState = Undefined /\ ifIssues = <<>>
  /\ ifPageLen = 1 /\ ifPc = "idle" /\ ifPage = 0 /\ ifIdx = 0
  /\ stateResolves = <<>> /\ labelCalls = <<>>
  /\ counts = <<>> /\ totalFetched = 0 /\ totalMatched = 0
  /\ runStreams = <<>> /\ nextClientId = 1
  /\ connections = <<>> /\ emitted = <<>>
  /\ runs = [r \in {"r1", "r2"} |-> "none"]

RNext ==
  \/ ResolveReturn
  \/ ResolveAwaitRel
  \/ ResolveCallReturns
  \/ ResolveCallThrows
  \/ ResolveAwaitValue
  \/ ResolveAwaitRejects

SpecResolve == RInit /\ [][RNext]_vars

(* --------------------------- aggregation helpers ----------------------- *)
\* a || d
Or(a, d) == IF Not(a) THEN d ELSE a

\* IssueLite, with the fields the helpers read; n is the object's identity
\* (its position in the input)
IssueLite(n, projectId, projectName, stateName, assigneeId, assigneeName) ==
  [n |-> n, projectId |-> projectId, projectName |-> projectName,
   stateName |-> stateName, assigneeId |-> assigneeId,
   assigneeName |-> assigneeName]

\* Project, with the fields the helpers read
Project(name, state, archivedAt) ==
  [t |-> "object", name |-> name, state |-> state, archivedAt |-> archivedAt]

\* a Map in insertion order: has, get, set
MapHas(m, k) == \E j \in 1..Len(m) : m[j].key = k
MapGet(m, k) == m[CHOOSE j \in 1..Len(m) : m[j].key = k].val
MapSet(m, k, v) ==
  IF MapHas(m, k)
    THEN [j \in 1..Len(m) |-> IF m[j].key = k THEN [key |-> k, val |-> v] ELSE m[j]]
    ELSE Append(m, [key |-> k, val |-> v])
MapValues(m) == [j \in 1..Len(m) |-> m[j].val]

\* the body of for (const iss of issues) in groupIssuesByProjectThenState
\* faulty variant: the state placeholder is applied with ?? and an empty state
\* name keeps its own bucket
GroupOneNullish(g, iss) ==
  LET proj == Coalesce(iss.projectName, Str("(No Project)"))
      g1 == IF ~MapHas(g, proj) THEN MapSet(g, proj, <<>>) ELSE g
      byState == MapGet(g1, proj)
      s == Coalesce(iss.stateName, Str("(No State)"))
      b1 == IF ~MapHas(byState, s) THEN MapSet(byState, s, <<>>) ELSE byState
  IN MapSet(g1, proj, MapSet(b1, s, Append(MapGet(b1, s), iss)))
GroupOne(g, iss) ==
  LET proj == Coalesce(iss.projectName, Str("(No Project)"))
      g1 == IF ~MapHas(g, proj) THEN MapSet(g, proj, <<>>) ELSE g
      byState == MapGet(g1, proj)
      s == Or(iss.stateName, Str("(No State)"))
      b1 == IF ~MapHas(byState, s) THEN MapSet(byState, s, <<>>) ELSE byState
  IN MapSet(g1, proj, MapSet(b1, s, Append(MapGet(b1, s), iss)))

RECURSIVE GroupFrom(_, _)
GroupFrom(g, iss) ==
  IF iss = <<>> THEN g ELSE GroupFrom(GroupOne(g, Head(iss)), Tail(iss))
groupIssuesByProjectThenState(iss) == GroupFrom(<<>>, iss)

\* String.prototype.toLowerCase on the status strings in use
ToLowerCase(s) ==
  CASE s = "Started" -> "started"
    [] s = "Planned" -> "planned"
    [] s = "Bug" -> "bug"
    [] s = "Todo" -> "todo"
    [] s = "(No State)" -> "(no state)"
    [] OTHER -> s

\* String(v) for a string v
String(v) == v.s

\* faulty variant: archived projects count as active
IsActiveProjectArchivedToo(p) ==
  IF Not(p) THEN FALSE
  ELSE LET state == ToLowerCase(String(Coalesce(p.state, Str(""))))
       IN state = "planned" \/ state = "started"
isActiveProject(p) ==
  IF Not(p) THEN FALSE
  ELSE LET state == ToLowerCase(String(Coalesce(p.state, Str(""))))
           isactive == state = "planned" \/ state = "started"
       IN isactive /\ Not(p.archivedAt)

\* a.localeCompare(b) on the names in use: their collation order
NameOrder ==
  <<"(unassigned)", "(Unnamed Project)", "A", "Alpha", "B", "C", "Zeta">>
NameRank(s) == CHOOSE j \in 1..Len(NameOrder) : NameOrder[j] = s
LocaleCompare(a, b) == NameRank(a) - NameRank(b)

\* Array.from(new Set(s)): first occurrences, in order
RECURSIVE Unique(_)
Unique(s) ==
  IF s = <<>> THEN <<>>
  ELSE LET u == Unique(SubSeq(s, 1, Len(s) - 1))
           x == s[Len(s)]
       IN IF \E j \in 1..Len(u) : u[j] = x THEN u ELSE Append(u, x)

\* (a, b) => b.openCount - a.openCount || a.projectName.localeCompare(b.projectName)
CompareRows(a, b) ==
  IF b.openCount - a.openCount # 0 THEN b.openCount - a.openCount
  ELSE LocaleCompare(a.projectName, b.projectName)

\* (a, b) => b.count - a.count || a.name.localeCompare(b.name)
CompareLoad(a, b) ==
  IF b.count - a.count # 0 THEN b.count - a.count
  ELSE LocaleCompare(a.name, b.name)

\* the comparators handed to sort
Compare(cmp, a, b) ==
  IF cmp = "rows" THEN CompareRows(a, b) ELSE CompareLoad(a, b)

\* Array.prototype.sort(cmp): stable; x goes behind every element that does not
\* sort after it
RECURSIVE InsertSorted(_, _, _)
InsertSorted(s, x, cmp) ==
  IF s = <<>> THEN <<x>>
  ELSE IF Compare(cmp, Head(s), x) <= 0
    THEN <<Head(s)>> \o InsertSorted(Tail(s), x, cmp)
    ELSE <<x>> \o s
RECURSIVE SortFrom(_, _, _)
SortFrom(done, rest, cmp) ==
  IF rest = <<>> THEN done
  ELSE SortFrom(InsertSorted(done, Head(rest), cmp), Tail(rest), cmp)
Sort(s, cmp) == SortFrom(<<>>, s, cmp)

computeActiveProjects(iss, projs) ==
  LET pids == [j \in 1..Len(iss) |-> iss[j].projectId]
      Boolean(v) == ~Not(v)
      referenced == Unique(SelectSeq(pids, Boolean))
      Listed(pid) == ~Not(projs[pid.s]) /\ isActiveProject(projs[pid.s])
      Row(pid) ==
        LET p == projs[pid.s]
            SamePid(x) == x.projectId = pid
        IN [projectName |-> Coalesce(p.name, Str("(Unnamed Project)")).s,
            projectId |-> pid.s,
            state |-> Coalesce(p.state, Str("")).s,
            openCount |-> Len(SelectSeq(iss, SamePid))]
      kept == SelectSeq(referenced, Listed)
  IN Sort([j \in 1..Len(kept) |-> Row(kept[j])], "rows")

\* the body of for (const iss of issues) in computeAssigneeLoad
\* faulty variant: a later issue of the same assignee replaces the count
LoadOneReset(by, iss) ==
  LET key == Coalesce(iss.assigneeId, Str("(unassigned)"))
      nm == Coalesce(iss.assigneeName, Str("(unassigned)"))
  IN MapSet(by, key, [name |-> nm.s, count |-> 1])
LoadOne(by, iss) ==
  LET key == Coalesce(iss.assigneeId, Str("(unassigned)"))
      nm == Coalesce(iss.assigneeName, Str("(unassigned)"))
      cur == IF MapHas(by, key) THEN MapGet(by, key)
             ELSE [name |-> nm.s, count |-> 0]
  IN MapSet(by, key, [cur EXCEPT !.count = cur.count + 1])

RECURSIVE LoadFrom(_, _)
LoadFrom(by, iss) ==
  IF iss = <<>> THEN by ELSE LoadFrom(LoadOne(by, Head(iss)), Tail(iss))
computeAssigneeLoad(iss) == Sort(MapValues(LoadFrom(<<>>, iss)), "load")

\* the inputs of the helpers
ProjectNames == {Undefined, Null, Str(""), Str("Alpha"), Str("Beta")}
StateNames == {Str(""), Str("Todo"), Str("Done")}
Pids == {"p1", "p2", "p3"}
ProjectIds == {Undefined, Null} \cup {Str(p) : p \in Pids}
NameOfProject(pid) ==
  CASE pid = "p1" -> Str("Zeta") [] pid = "p2" -> Str("Alpha") [] OTHER -> Null
ProjectsAt(pid) ==
  {NoProject,
   Project(NameOfProject(pid), Str("planned"), Null),
   Project(NameOfProject(pid), Str("Started"), Null),
   Project(NameOfProject(pid), Str("completed"), Null),
   Project(NameOfProject(pid), Null, Null),
   Project(NameOfProject(pid), Str("planned"), Str("2024-01-01"))}
Assignees ==
  {<<Undefined, Undefined>>, <<Null, Null>>, <<Str("uA"), Str("A")>>,
   <<Str("uB"), Str("B")>>, <<Str("uC"), Str("C")>>, <<Str("uD"), Null>>}

ApplyGroup ==
  /\ helper = "group" /\ aggpc = "start"
  /\ grouped' = groupIssuesByProjectThenState(issues)
  /\ aggpc' = "done"
  /\ UNCHANGED <<helper, issues, projects, rows, load>>
  /\ UNCHANGED <<pvars, mvars, rvars, fvars, svars, zvars>>

ApplyActive ==
  /\ helper = "active" /\ aggpc = "start"
  /\ rows' = computeActiveProjects(issues, projects)
  /\ aggpc' = "done"
  /\ UNCHANGED <<helper, issues, projects, grouped, load>>
  /\ UNCHANGED <<pvars, mvars, rvars, fvars, svars, zvars>>

ApplyLoad ==
  /\ helper = "load" /\ aggpc = "start"
  /\ load' = computeAssigneeLoad(issues)
  /\ aggpc' = "done"
  /\ UNCHANGED <<helper, issues, projects, grouped, rows>>
  /\ UNCHANGED <<pvars, mvars, rvars, fvars, svars, zvars>>

\* one call of one helper on any issues (and projects); each issue carries the
\* fields that helper reads
AInit ==
  /\ helper \in {"group", "active", "load"}
  /\ \/ /\ helper = "group"
        /\ \E n \in 0..MaxIssues :
             \E f \in [1..n -> ProjectNames \X StateNames] :
               issues = [k \in 1..n |->
                 IssueLite(k, Undefined, f[k][1], f[k][2], Undefined, Undefined)]
        /\ projects = NoProjects
     \/ /\ helper = "active"
        /\ \E n \in 0..MaxIssues :
             \E f \in [1..n -> ProjectIds] :
               issues = [k \in 1..n |->
                 IssueLite(k, f[k], Undefined, Str("Todo"), Undefined, Undefined)]
        /\ \E ps \in [Pids -> UNION {ProjectsAt(p) : p \in Pids}] :
             /\ \A p \in Pids : ps[p] \in ProjectsAt(p)
             /\ projects = ps
     \/ /\ helper = "load"
        /\ \E n \in 0..MaxLoadIssues :
             \E f \in [1..n -> Assignees] :
               issues = [k \in 1..n |->
                 IssueLite(k, Undefined, Undefined, Str("Todo"), f[k][1], f[k][2])]
        /\ projects = NoProjects
  /\ aggpc = "start" /\ grouped = <<>> /\ rows = <<>> /\ load = <<>>
  /\ fn = "none" /\ pc = "done"
  /\ calls = <<>> /\ served = <<>> /\ inflight = 0
  /\ out = <<>> /\ after = Null
  /\ cursor = Undefined /\ page = 1 /\ totalCount = 0
  /\ todo = <<>> /\ lastRes = [hasNextPage |-> FALSE, endCursor |-> Null]
  /\ log = <<>> /\ fetchErr = "none"
  /\ ret = Pending
  /\ mlpc = "idle" /\ items = <<>> /\ limit = 0
  /\ i = 0 /\ active = 0
  /\ result = <<>> /\ wstate = <<>> /\ invoked = <<>> /\ jobs = <<>>
  /\ firstFailed = NoIdx /\ doneOrder = <<>> /\ mlRet = MPending
  /\ rel = Undefined /\ rrpc = "idle" /\ rrCalls = 0
  /\ rrAwait = Undefined /\ rrEvent = NoEvent /\ rrRet = RPending
  /\ foVersion = "none" /\ fopc = "idle" /\ archivedIds = {}
  /\ openIssues = <<>> /\ foRet = Pending
  /\ apiQuery = Undefined /\ apiLimitParam = Undefined /\ apipc = "idle"
  /\ apiLimit = NaN /\ apiAfter = Null /\ apiFetched = 0 /\ apiCalls = 0
  /\ apiMatched = 0 /\ apiStatus = 0 /\ apiSent = 0
  /\ clients = <<>> /\ nextId = 1
  /\ webhooks = [r \in 1..MaxWebhooks |-> NoWebhook]
  /\ pings = 0 /\ broadcasts = <<>> /\ sseWrites = <<>>
  /\ snapPc = "idle" /\ snapIssues = 0 /\ snapPattern = "none"
  /\ snapNext = 0 /\ snapWorkers = [j \in 1..4 |-> 0]
  /\ snapProjectsInFlight = 0 /\ snapProjectsDone = 0
  /\ givenIssues = <<>> /\ givenProjects = NoProjects
  /\ argIssues = <<>> /\ argProjects = NoProjects /\ returns = <<>>
  /\ labelName = Undefined /\ wantedState = Undefined /\ ifIssues = <<>>
  /\ ifPageLen = 1 /\ ifPc = "idle" /\ ifPage = 0 /\ ifIdx = 0
  /\ stateResolves = <<>> /\ labelCalls = <<>>
  /\ counts = <<>> /\ totalFetched = 0 /\ totalMatched = 0
  /\ runStreams = <<>> /\ nextClientId = 1
  /\ connections = <<>> /\ emitted = <<>>
  /\ runs = [r \in {"r1", "r2"} |-> "none"]

ANext ==
  \/ ApplyGroup
  \/ ApplyActive
  \/ ApplyLoad

SpecAggregate == AInit /\ [][ANext]_vars

(* ----------------------------- fetchOpenIssues ------------------------- *)
\* the two fetchOpenIssues of the repository
FetchOpenVersions == {"workspaceSnapshot.ts", "part_004"}

\* issue.archivedAt of the issue the server returned as node n
ArchivedAt(n) == IF n \in archivedIds THEN Str("2025-01-01") ELSE Null

\* the issues handed to mapLimit:
\*   workspaceSnapshot.ts: mapLimit(rawIssues, ...), the archivedAt: { null: true }
\*     of the filter argument being left to the server
\*   part_004: rawIssues.filter(issue => !issue.archivedAt)
OpenIssuesOf(version, rawIssues) ==
  IF version = "part_004"
    THEN LET Open(n) == Not(ArchivedAt(n)) IN SelectSeq(rawIssues, Open)
    ELSE rawIssues

\* the IssueLite the worker builds for an issue
LiteOf(n) == <<"lite", n>>

\* const rawIssues = await paginate(...) resumes with the issues; the filter
FetchOpenPaginated ==
  /\ fopc = "paginate"
  /\ fn = "paginate" /\ pc = "done" /\ ret.state = "fulfilled"
  /\ openIssues' = OpenIssuesOf(foVersion, ret.items)
  /\ fopc' = "map"
  /\ UNCHANGED <<foVersion, archivedIds, foRet>>
  /\ UNCHANGED <<pvars, mvars, rvars, avars, svars, zvars>>

\* const rawIssues = await paginate(...) throws
FetchOpenPaginateFailed ==
  /\ fopc = "paginate"
  /\ fn = "paginate" /\ pc = "failed" /\ ret.state = "rejected"
  /\ foRet' = Rejected(ret.error)
  /\ fopc' = "done"
  /\ UNCHANGED <<foVersion, archivedIds, openIssues>>
  /\ UNCHANGED <<pvars, mvars, rvars, avars, svars, zvars>>

\* const lites = await mapLimit(...) resumes with the workers' results, one per
\* item at the item's index; return lites
FetchOpenMapped ==
  /\ fopc = "map"
  /\ foRet' = Fulfilled([k \in 1..Len(openIssues) |-> LiteOf(openIssues[k])], 0)
  /\ fopc' = "done"
  /\ UNCHANGED <<foVersion, archivedIds, openIssues>>
  /\ UNCHANGED <<pvars, mvars, rvars, avars, svars, zvars>>

\* const lites = await mapLimit(...) throws: a relation of some issue rejected
FetchOpenMapFailed ==
  /\ fopc = "map"
  /\ openIssues # <<>>
  /\ \E e \in RelationErrors : foRet' = Rejected(e)
  /\ fopc' = "done"
  /\ UNCHANGED <<foVersion, archivedIds, openIssues>>
  /\ UNCHANGED <<pvars, mvars, rvars, avars, svars, zvars>>

\* one fetchOpenIssues(client) call of either version; the server may return
\* archived issues among the first MaxArchivable
FInit ==
  /\ foVersion \in FetchOpenVersions
  /\ fopc = "paginate"
  /\ archivedIds \in SUBSET (1..MaxArchivable)
  /\ openIssues = <<>> /\ foRet = Pending
  /\ fn = "paginate" /\ pc = "fetch"
  /\ calls = <<>> /\ served = <<>> /\ inflight = 0
  /\ out = <<>> /\ after = Null
  /\ cursor = Undefined /\ page = 1 /\ totalCount = 0
  /\ todo = <<>> /\ lastRes = [hasNextPage |-> FALSE, endCursor |-> Null]
  /\ log = <<>> /\ fetchErr = "none"
  /\ ret = Pending
  /\ mlpc = "idle" /\ items = <<>> /\ limit = 0
  /\ i = 0 /\ active = 0
  /\ result = <<>> /\ wstate = <<>> /\ invoked = <<>> /\ jobs = <<>>
  /\ firstFailed = NoIdx /\ doneOrder = <<>> /\ mlRet = MPending
  /\ rel = Undefined /\ rrpc = "idle" /\ rrCalls = 0
  /\ rrAwait = Undefined /\ rrEvent = NoEvent /\ rrRet = RPending
  /\ helper = "none" /\ issues = <<>> /\ projects = NoProjects
  /\ aggpc = "idle" /\ grouped = <<>> /\ rows = <<>> /\ load = <<>>
  /\ apiQuery = Undefined /\ apiLimitParam = Undefined /\ apipc = "idle"
  /\ apiLimit = NaN /\ apiAfter = Null /\ apiFetched = 0 /\ apiCalls = 0
  /\ apiMatched = 0 /\ apiStatus = 0 /\ apiSent = 0
  /\ clients = <<>> /\ nextId = 1
  /\ webhooks = [r \in 1..MaxWebhooks |-> NoWebhook]
  /\ pings = 0 /\ broadcasts = <<>> /\ sseWrites = <<>>
  /\ snapPc = "idle" /\ snapIssues = 0 /\ snapPattern = "none"
  /\ snapNext = 0 /\ snapWorkers = [j \in 1..4 |-> 0]
  /\ snapProjectsInFlight = 0 /\ snapProjectsDone = 0
  /\ givenIssues = <<>> /\ givenProjects = NoProjects
  /\ argIssues = <<>> /\ argProjects = NoProjects /\ returns = <<>>
  /\ labelName = Undefined /\ wantedState = Undefined /\ ifIssues = <<>>
  /\ ifPageLen = 1 /\ ifPc = "idle" /\ ifPage = 0 /\ ifIdx = 0
  /\ stateResolves = <<>> /\ labelCalls = <<>>
  /\ counts = <<>> /\ totalFetched = 0 /\ totalMatched = 0
  /\ runStreams = <<>> /\ nextClientId = 1
  /\ connections = <<>> /\ emitted = <<>>
  /\ runs = [r \in {"r1", "r2"} |-> "none"]

FNext ==
  \/ PaginateFetch
  \/ PaginateFetchResolve
  \/ PaginateFetchReject
  \/ FetchOpenPaginated
  \/ FetchOpenPaginateFailed
  \/ FetchOpenMapped
  \/ FetchOpenMapFailed

SpecFetchOpen == FInit /\ [][FNext]_vars

(* ----------------------------- GET /api/issues ------------------------- *)
\* Number(v) for the limit parameter: a number is itself, a string is parsed
\* (the empty string is 0, a decimal integer its value, anything else NaN)
StringToNumber(s) ==
  CASE s = "" -> JsNum(0)
    [] s = "0" -> JsNum(0)
    [] s = "-5" -> JsNum(0 - 5)
    [] s = "1" -> JsNum(1)
    [] s = "7" -> JsNum(7)
    [] s = "200" -> JsNum(200)
    [] s = "500" -> JsNum(500)
    [] s = "501" -> JsNum(501)
    [] s = "1000" -> JsNum(1000)
    [] OTHER -> NaN
Number(v) == IF v.t = "jsnum" THEN v.num ELSE StringToNumber(v.s)

\* Math.min, Math.max: NaN if either argument is NaN
MathMin(a, b) ==
  IF a.nan \/ b.nan THEN NaN ELSE JsNum(IF a.v <= b.v THEN a.v ELSE b.v)
MathMax(a, b) ==
  IF a.nan \/ b.nan THEN NaN ELSE JsNum(IF a.v >= b.v THEN a.v ELSE b.v)

\* the number literal d as the right operand of ??
Literal(d) == [t |-> "jsnum", s |-> "", num |-> JsNum(d)]

\* const limit = Math.max(1, Math.min(500, Number(req.query.limit ?? 200)))
LimitOf(param) ==
  MathMax(JsNum(LimitFloor),
          MathMin(JsNum(LimitCeiling),
                  Number(IF param.t \in {"null", "undefined"}
                           THEN Literal(DefaultLimit) ELSE param)))

\* the length of arr.slice(0, end) for an array of length len: end goes
\* through ToIntegerOrInfinity (NaN is 0), a negative end counts from the back
SliceLength(len, end) ==
  LET e == IF end.nan THEN 0 ELSE end.v
      k == IF e < 0 THEN (IF len + e > 0 THEN len + e ELSE 0)
           ELSE (IF e < len THEN e ELSE len)
  IN k

\* query?.trim(), and query && query.match(/^([A-Za-z]+)-(\d+)$/)
Trim(q) ==
  IF q.t = "string" THEN Str(IF q.s = "  " THEN "" ELSE q.s) ELSE Undefined
IdentMatch(q) == q = Str("ENG-101")

\* the requests: query absent, blank, a search text, an identifier; limit
\* absent or a string
Queries == {Undefined, Str("  "), Str("fix"), Str("ENG-101")}
LimitParams ==
  {Undefined, Str("abc"), Str(""), Str("0"), Str("-5"), Str("1"), Str("7"),
   Str("200"), Str("500"), Str("501"), Str("1000")}

\* the pages linear.issues may resolve with: their node count, pageInfo
ApiPageSizes == {0, 1, First}
ApiPages ==
  [n : ApiPageSizes, hasNextPage : BOOLEAN, endCursor : EndCursors]

\* the cursor for the next round:
\*   identifier branch (paginate): hasNextPage ? (endCursor ?? null) : null
\*   search branch: hasNextPage && fetched < 500 ? (endCursor ?? null) : null
ApiNextAfter(ident, p, fetched) ==
  IF ident THEN NextAfter(p)
  ELSE IF p.hasNextPage /\ fetched < FetchedCap
    THEN Coalesce(p.endCursor, Null) ELSE Null

\* the handler up to its first await: query, limit, the branch
ApiStart ==
  /\ apipc = "start"
  /\ apiLimit' = LimitOf(apiLimitParam)
  /\ apiAfter' = Null
  /\ apipc' = "fetch"
  /\ UNCHANGED <<apiQuery, apiLimitParam, apiFetched, apiCalls, apiMatched,
                 apiStatus, apiSent>>
  /\ UNCHANGED <<pvars, mvars, rvars, avars, fvars, zvars>>

\* linear.issues({ first: 50, after, ... })
ApiFetch ==
  /\ apipc = "fetch"
  /\ apiCalls < MaxApiPages
  /\ apiCalls' = apiCalls + 1
  /\ apipc' = "await"
  /\ UNCHANGED <<apiQuery, apiLimitParam, apiLimit, apiAfter, apiFetched,
                 apiMatched, apiStatus, apiSent>>
  /\ UNCHANGED <<pvars, mvars, rvars, avars, fvars, zvars>>

\* ... the await resumes with a page: push its nodes, advance the cursor, test
\* while (after)
ApiFetchResolve ==
  /\ apipc = "await"
  /\ \E p \in ApiPages :
       LET fetched == apiFetched + p.n
           next == ApiNextAfter(IdentMatch(Trim(apiQuery)), p, fetched)
       IN /\ apiFetched' = fetched
          /\ apiAfter' = next
          /\ apipc' = IF Truthy(next) THEN "fetch" ELSE "respond"
  /\ UNCHANGED <<apiQuery, apiLimitParam, apiLimit, apiCalls, apiMatched,
                 apiStatus, apiSent>>
  /\ UNCHANGED <<pvars, mvars, rvars, avars, fvars, zvars>>

\* ... the await throws: catch, status 500
ApiFetchReject ==
  /\ apipc = "await"
  /\ apiStatus' = 500
  /\ apipc' = "done"
  /\ UNCHANGED <<apiQuery, apiLimitParam, apiLimit, apiAfter, apiFetched,
                 apiCalls, apiMatched, apiSent>>
  /\ UNCHANGED <<pvars, mvars, rvars, avars, fvars, zvars>>

\* after the loop: filter by the query if there is one (any number of the
\* fetched issues may match), slice(0, limit), res.json
ApiRespond ==
  /\ apipc = "respond"
  /\ \E m \in {0, 1, apiFetched} :
       /\ m <= apiFetched
       /\ (IdentMatch(Trim(apiQuery)) \/ Not(Trim(apiQuery))) => m = apiFetched
       /\ apiMatched' = m
       /\ apiSent' = SliceLength(m, apiLimit)
  /\ apiStatus' = 200
  /\ apipc' = "done"
  /\ UNCHANGED <<apiQuery, apiLimitParam, apiLimit, apiAfter, apiFetched,
                 apiCalls>>
  /\ UNCHANGED <<pvars, mvars, rvars, avars, fvars, zvars>>

\* one GET /api/issues request
SInit ==
  /\ apiQuery \in Queries
  /\ apiLimitParam \in LimitParams
  /\ apipc = "start"
  /\ apiLimit = NaN /\ apiAfter = Null /\ apiFetched = 0 /\ apiCalls = 0
  /\ apiMatched = 0 /\ apiStatus = 0 /\ apiSent = 0
  /\ fn = "none" /\ pc = "done"
  /\ calls = <<>> /\ served = <<>> /\ inflight = 0
  /\ out = <<>> /\ after = Null
  /\ cursor = Undefined /\ page = 1 /\ totalCount = 0
  /\ todo = <<>> /\ lastRes = [hasNextPage |-> FALSE, endCursor |-> Null]
  /\ log = <<>> /\ fetchErr = "none"
  /\ ret = Pending
  /\ mlpc = "idle" /\ items = <<>> /\ limit = 0
  /\ i = 0 /\ active = 0
  /\ result = <<>> /\ wstate = <<>> /\ invoked = <<>> /\ jobs = <<>>
  /\ firstFailed = NoIdx /\ doneOrder = <<>> /\ mlRet = MPending
  /\ rel = Undefined /\ rrpc = "idle" /\ rrCalls = 0
  /\ rrAwait = Undefined /\ rrEvent = NoEvent /\ rrRet = RPending
  /\ helper = "none" /\ issues = <<>> /\ projects = NoProjects
  /\ aggpc = "idle" /\ grouped = <<>> /\ rows = <<>> /\ load = <<>>
  /\ foVersion = "none" /\ fopc = "idle" /\ archivedIds = {}
  /\ openIssues = <<>> /\ foRet = Pending
  /\ clients = <<>> /\ nextId = 1
  /\ webhooks = [r \in 1..MaxWebhooks |-> NoWebhook]
  /\ pings = 0 /\ broadcasts = <<>> /\ sseWrites = <<>>
  /\ snapPc = "idle" /\ snapIssues = 0 /\ snapPattern = "none"
  /\ snapNext = 0 /\ snapWorkers = [j \in 1..4 |-> 0]
  /\ snapProjectsInFlight = 0 /\ snapProjectsDone = 0
  /\ givenIssues = <<>> /\ givenProjects = NoProjects
  /\ argIssues = <<>> /\ argProjects = NoProjects /\ returns = <<>>
  /\ labelName = Undefined /\ wantedState = Undefined /\ ifIssues = <<>>
  /\ ifPageLen = 1 /\ ifPc = "idle" /\ ifPage = 0 /\ ifIdx = 0
  /\ stateResolves = <<>> /\ labelCalls = <<>>
  /\ counts = <<>> /\ totalFetched = 0 /\ totalMatched = 0
  /\ runStreams = <<>> /\ nextClientId = 1
  /\ connections = <<>> /\ emitted = <<>>
  /\ runs = [r \in {"r1", "r2"} |-> "none"]

SNext ==
  \/ ApiStart
  \/ ApiFetch
  \/ ApiFetchResolve
  \/ ApiFetchReject
  \/ ApiRespond

SpecApiIssues == SInit /\ [][SNext]_vars

(* ---------------------------- webhook server --------------------------- *)

\* A string as the list of its characters (header values and hex digests are
\* compared by length and content)
Chars(cs) == [t |-> "string", s |-> cs]

\* the raw bodies a request may carry, by name:
\*   "bad"       {"type":            (no JSON text)
\*   "null"      null
\*   "issue"     {"type":"Issue","action":"create","data":{"id":"i1"}}
\*   "comment"   {"type":"Comment","data":{"id":"c1"}}
\*   "dataIssue" {"type":"Reaction","data":{"id":"i1","type":"Issue"}}
\*   "noId"      {"type":"Issue","data":{}}
\*   "numType"   {"type":1,"data":{"id":"i1"}}
\* and the request with no body bytes at all (req.rawBody undefined)
BodyTexts == {"bad", "null", "issue", "comment", "dataIssue", "noId", "numType"}
RawBodies == {Undefined} \cup {Str(b) : b \in BodyTexts}

\* crypto.createHmac("sha256", WEBHOOK_SECRET).update(rawBody).digest("hex"):
\* one digest per body, all of one length
HmacHex(raw) ==
  CASE raw = Str("") -> <<"e", "0">>
    [] raw = Str("bad") -> <<"b", "a">>
    [] raw = Str("null") -> <<"0", "0">>
    [] raw = Str("issue") -> <<"a", "1">>
    [] raw = Str("comment") -> <<"c", "2">>
    [] raw = Str("dataIssue") -> <<"d", "3">>
    [] raw = Str("noId") -> <<"4", "f">>
    [] raw = Str("numType") -> <<"5", "e">>

\* headerValue.trim()
RECURSIVE TrimStart(_)
TrimStart(cs) ==
  IF cs # <<>> /\ Head(cs) = " " THEN TrimStart(Tail(cs)) ELSE cs
RECURSIVE TrimEnd(_)
TrimEnd(cs) ==
  IF cs # <<>> /\ cs[Len(cs)] = " "
    THEN TrimEnd(SubSeq(cs, 1, Len(cs) - 1)) ELSE cs
TrimChars(cs) == TrimEnd(TrimStart(cs))

\* verifyLinearSignature(rawBody, headerValue)
verifyLinearSignature(rawBody, headerValue) ==
  IF headerValue.t = "undefined" \/ headerValue.s = <<>> THEN FALSE
  ELSE LET expected == HmacHex(rawBody)
           received == TrimChars(headerValue.s)
       IN IF Len(expected) # Len(received) THEN FALSE
          ELSE expected = received

\* the Linear-Signature headers a request on body raw may carry: none, empty,
\* blank, the digest, the digest inside whitespace, the digest of another
\* body, a longer and a shorter text
Signatures(raw) ==
  {Undefined, Chars(<<>>), Chars(<<" ", " ">>),
   Chars(HmacHex(raw)), Chars(<<" ">> \o HmacHex(raw) \o <<" ">>),
   Chars(IF raw = Str("issue") THEN HmacHex(Str("comment"))
                               ELSE HmacHex(Str("issue"))),
   Chars(HmacHex(raw) \o <<"f">>), Chars(<<Head(HmacHex(raw))>>)}

\* JSON.parse(raw.toString("utf8")): threw is TRUE where it throws
Parsed(type, id, dataType) ==
  [threw |-> FALSE, type |-> type, id |-> id, dataType |-> dataType]
JsonParse(raw) ==
  CASE raw = Str("null") -> Parsed(Undefined, Undefined, Undefined)
    [] raw = Str("issue") -> Parsed(Str("Issue"), Str("i1"), Undefined)
    [] raw = Str("comment") -> Parsed(Str("Comment"), Str("c1"), Undefined)
    [] raw = Str("dataIssue") -> Parsed(Str("Reaction"), Str("i1"), Str("Issue"))
    [] raw = Str("noId") -> Parsed(Str("Issue"), Undefined, Undefined)
    [] raw = Str("numType") -> Parsed(Num("1"), Str("i1"), Undefined)
    [] OTHER -> [threw |-> TRUE, type |-> Undefined, id |-> Undefined,
                 dataType |-> Undefined]

\* event?.data?.id && (event?.type?.toLowerCase().includes("issue") ||
\*                     event?.data?.type === "Issue"):
\* "throws" where toLowerCase is not a function of event.type
EnrichTest(event) ==
  IF Not(event.id) THEN "no"
  ELSE IF event.type.t \in {"null", "undefined"}
         THEN IF event.dataType = Str("Issue") THEN "yes" ELSE "no"
  ELSE IF event.type.t # "string" THEN "throws"
  ELSE IF event.type = Str("Issue") \/ event.dataType = Str("Issue")
         THEN "yes" ELSE "no"

\* the raw body the handler works on: req.rawBody ?? Buffer.from("")
RawOf(rawBody) == Coalesce(rawBody, Str(""))

Webhook(at, signature, rawBody, status) ==
  [pc |-> at, signature |-> signature, rawBody |-> rawBody, status |-> status]

\* the payloads given to broadcastEvent
EventOf(r) == [type |-> "linear", req |-> r]
DevPingEvent == [type |-> "DevPing", req |-> 0]
Hello == [type |-> "hello", req |-> 0]

\* broadcastEvent(payload): one write to every entry of clients, in list order
BroadcastWrites(payload) ==
  [k \in 1..Len(clients) |-> [to |-> clients[k], payload |-> payload]]
broadcastEvent(payload) ==
  /\ broadcasts' = Append(broadcasts, payload)
  /\ sseWrites' = sseWrites \o BroadcastWrites(payload)

\* GET /events: a browser connects
EventsConnect ==
  /\ nextId <= MaxSseClients
  /\ clients' = Append(clients, nextId)
  /\ nextId' = nextId + 1
  /\ sseWrites' = Append(sseWrites, [to |-> nextId, payload |-> Hello])
  /\ UNCHANGED <<webhooks, pings, broadcasts>>
  /\ UNCHANGED <<pvars, mvars, xvars, kvars, hvars, ivars, evars>>

\* req.on("close"): the browser with this id disconnected
EventsClose(id) ==
  /\ \E k \in 1..Len(clients) : clients[k] = id
  /\ clients' = SelectSeq(clients, LAMBDA c : c # id)
  /\ UNCHANGED <<nextId, webhooks, pings, broadcasts, sseWrites>>
  /\ UNCHANGED <<pvars, mvars, xvars, kvars, hvars, ivars, evars>>

\* POST /linear-webhook, from the request to the handler's first await or to
\* its answer
WebhookReceive(r) ==
  /\ webhooks[r].pc = "none"
  /\ \E rawBody \in RawBodies : \E signature \in Signatures(RawOf(rawBody)) :
       LET raw == RawOf(rawBody)
           event == JsonParse(raw)
           Answer(at, status) ==
             webhooks' = [webhooks EXCEPT
                            ![r] = Webhook(at, signature, rawBody, status)]
       IN IF ~verifyLinearSignature(raw, signature)
            THEN Answer("done", 401) /\ UNCHANGED <<broadcasts, sseWrites>>
          ELSE IF event.threw \/ EnrichTest(event) = "throws"
            THEN Answer("done", 500) /\ UNCHANGED <<broadcasts, sseWrites>>
          ELSE IF EnrichTest(event) = "yes"
            THEN Answer("issue", 0) /\ UNCHANGED <<broadcasts, sseWrites>>
          ELSE Answer("done", 200) /\ broadcastEvent(EventOf(r))
  /\ UNCHANGED <<clients, nextId, pings>>
  /\ UNCHANGED <<pvars, mvars, xvars, kvars, hvars, ivars, evars>>

\* one of the three awaits of the enrichment fulfils: linear.issue(id),
\* issue.state, issue.team; after the last one the event is broadcast
WebhookEnriched(r) ==
  /\ webhooks[r].pc \in {"issue", "state", "team"}
  /\ IF webhooks[r].pc = "team"
       THEN /\ webhooks' = [webhooks EXCEPT ![r].pc = "done", ![r].status = 200]
            /\ broadcastEvent(EventOf(r))
       ELSE /\ webhooks' = [webhooks EXCEPT
                 ![r].pc = IF webhooks[r].pc = "issue" THEN "state" ELSE "team"]
            /\ UNCHANGED <<broadcasts, sseWrites>>
  /\ UNCHANGED <<clients, nextId, pings>>
  /\ UNCHANGED <<pvars, mvars, xvars, kvars, hvars, ivars, evars>>

\* one of the three awaits rejects: the inner catch ignores the error and the
\* event is broadcast
WebhookEnrichFailed(r) ==
  /\ webhooks[r].pc \in {"issue", "state", "team"}
  /\ webhooks' = [webhooks EXCEPT ![r].pc = "done", ![r].status = 200]
  /\ broadcastEvent(EventOf(r))
  /\ UNCHANGED <<clients, nextId, pings>>
  /\ UNCHANGED <<pvars, mvars, xvars, kvars, hvars, ivars, evars>>

\* POST /dev/ping
DevPing ==
  /\ pings < MaxPings
  /\ pings' = pings + 1
  /\ broadcastEvent(DevPingEvent)
  /\ UNCHANGED <<clients, nextId, webhooks>>
  /\ UNCHANGED <<pvars, mvars, xvars, kvars, hvars, ivars, evars>>

WInit ==
  /\ clients = <<>> /\ nextId = 1
  /\ webhooks = [r \in 1..MaxWebhooks |-> NoWebhook]
  /\ pings = 0 /\ broadcasts = <<>> /\ sseWrites = <<>>
  /\ fn = "none" /\ pc = "done"
  /\ calls = <<>> /\ served = <<>> /\ inflight = 0
  /\ out = <<>> /\ after = Null
  /\ cursor = Undefined /\ page = 1 /\ totalCount = 0
  /\ todo = <<>> /\ lastRes = [hasNextPage |-> FALSE, endCursor |-> Null]
  /\ log = <<>> /\ fetchErr = "none"
  /\ ret = Pending
  /\ mlpc = "idle" /\ items = <<>> /\ limit = 0
  /\ i = 0 /\ active = 0
  /\ result = <<>> /\ wstate = <<>> /\ invoked = <<>> /\ jobs = <<>>
  /\ firstFailed = NoIdx /\ doneOrder = <<>> /\ mlRet = MPending
  /\ rel = Undefined /\ rrpc = "idle" /\ rrCalls = 0
  /\ rrAwait = Undefined /\ rrEvent = NoEvent /\ rrRet = RPending
  /\ helper = "none" /\ issues = <<>> /\ projects = NoProjects
  /\ aggpc = "idle" /\ grouped = <<>> /\ rows = <<>> /\ load = <<>>
  /\ foVersion = "none" /\ fopc = "idle" /\ archivedIds = {}
  /\ openIssues = <<>> /\ foRet = Pending
  /\ apiQuery = Undefined /\ apiLimitParam = Undefined /\ apipc = "idle"
  /\ apiLimit = NaN /\ apiAfter = Null /\ apiFetched = 0 /\ apiCalls = 0
  /\ apiMatched = 0 /\ apiStatus = 0 /\ apiSent = 0
  /\ snapPc = "idle" /\ snapIssues = 0 /\ snapPattern = "none"
  /\ snapNext = 0 /\ snapWorkers = [j \in 1..4 |-> 0]
  /\ snapProjectsInFlight = 0 /\ snapProjectsDone = 0
  /\ givenIssues = <<>> /\ givenProjects = NoProjects
  /\ argIssues = <<>> /\ argProjects = NoProjects /\ returns = <<>>
  /\ labelName = Undefined /\ wantedState = Undefined /\ ifIssues = <<>>
  /\ ifPageLen = 1 /\ ifPc = "idle" /\ ifPage = 0 /\ ifIdx = 0
  /\ stateResolves = <<>> /\ labelCalls = <<>>
  /\ counts = <<>> /\ totalFetched = 0 /\ totalMatched = 0
  /\ runStreams = <<>> /\ nextClientId = 1
  /\ connections = <<>> /\ emitted = <<>>
  /\ runs = [r \in {"r1", "r2"} |-> "none"]

WNext ==
  \/ EventsConnect
  \/ \E id \in 1..MaxSseClients : EventsClose(id)
  \/ \E r \in 1..MaxWebhooks : WebhookReceive(r)
  \/ \E r \in 1..MaxWebhooks : WebhookEnriched(r)
  \/ \E r \in 1..MaxWebhooks : WebhookEnrichFailed(r)
  \/ DevPing

SpecWebhook == WInit /\ [][WNext]_vars

(* ------------------- workspace snapshot: lookups in flight ------------- *)

\* the relations a mapLimit worker of fetchOpenIssues awaits with one
\* Promise.all; an issue without project has no project relation to fetch
IssueRelations == {"state", "project", "team", "assignee"}

\* the project id of the k-th open issue: no issue has a project ("none"), all
\* have the same one ("one"), or every issue has a project of its own ("each");
\* 0 is the null projectId
ProjectIdOf(pattern, k) ==
  CASE pattern = "none" -> 0
    [] pattern = "one" -> 1
    [] pattern = "each" -> k

\* the lookups the worker for issue k issues at once
LookupsOf(pattern, k) ==
  IF ProjectIdOf(pattern, k) = 0
    THEN Cardinality(IssueRelations \ {"project"})
    ELSE Cardinality(IssueRelations)

\* openIssues.map((i) => i.projectId).filter(Boolean), then
\* Array.from(new Set(projectIds.filter(Boolean)))
UniqProjectIds(pattern, n) ==
  {ProjectIdOf(pattern, k) : k \in 1..n} \ {0}

\* number of workers mapLimit counts as active
ActiveWorkers(ws) == ws[1] + ws[2] + ws[3] + ws[4]
\* lookups issued by the active workers and not yet settled
RelationsInFlight(ws) == ws[1] + 2 * ws[2] + 3 * ws[3] + 4 * ws[4]

\* pump of mapLimit(rawIssues, CONCURRENCY, worker) on the number of issues
\* started and the active workers, grouped by their number of lookups in
\* flight: while (active < limit && i < items.length) start the next worker
RECURSIVE SnapPump(_)
SnapPump(st) ==
  IF ActiveWorkers(st.ws) < CONCURRENCY /\ st.i < snapIssues
    THEN SnapPump([i |-> st.i + 1,
                   ws |-> [st.ws EXCEPT
                             ![LookupsOf(snapPattern, st.i + 1)] = @ + 1]])
    ELSE st

\* main after fetchOpenIssues returned: fetchProjectsById issues one
\* client.project(pid) per distinct project id, all at once (Promise.all over
\* uniq.map); with no project id it returns at once
SnapProjectsStart ==
  LET uniq == UniqProjectIds(snapPattern, snapIssues)
  IN /\ snapProjectsInFlight' = Cardinality(uniq)
     /\ snapPc' = IF uniq = {} THEN "done" ELSE "projects"

\* fetchOpenIssues after paginate returned rawIssues: mapLimit's first pump
SnapMapStart ==
  /\ snapPc = "start"
  /\ LET st == SnapPump([i |-> 0, ws |-> snapWorkers])
     IN /\ snapNext' = st.i /\ snapWorkers' = st.ws
        /\ IF st.i >= snapIssues /\ ActiveWorkers(st.ws) = 0
             THEN SnapProjectsStart
             ELSE snapPc' = "issues" /\ UNCHANGED snapProjectsInFlight
  /\ UNCHANGED <<snapIssues, snapPattern, snapProjectsDone>>
  /\ UNCHANGED <<pvars, mvars, xvars, wvars, hvars, ivars, evars>>

\* a relation lookup of a worker with k lookups in flight fulfils; with the
\* last one the worker's Promise.all fulfils, the worker returns its IssueLite
\* and its .then callback runs active-- and pump(); the pump that finds no
\* item and no active worker resolves, and main goes on to fetchProjectsById
SnapRelationFulfils(k) ==
  /\ snapPc = "issues"
  /\ snapWorkers[k] > 0
  /\ LET left == IF k = 1 THEN [snapWorkers EXCEPT ![1] = @ - 1]
                 ELSE [snapWorkers EXCEPT ![k] = @ - 1, ![k - 1] = @ + 1]
         st == IF k = 1 THEN SnapPump([i |-> snapNext, ws |-> left])
               ELSE [i |-> snapNext, ws |-> left]
     IN /\ snapNext' = st.i /\ snapWorkers' = st.ws
        /\ IF k = 1 /\ st.i >= snapIssues /\ ActiveWorkers(st.ws) = 0
             THEN SnapProjectsStart
             ELSE UNCHANGED <<snapPc, snapProjectsInFlight>>
  /\ UNCHANGED <<snapIssues, snapPattern, snapProjectsDone>>
  /\ UNCHANGED <<pvars, mvars, xvars, wvars, hvars, ivars, evars>>

\* a relation lookup rejects: the worker, mapLimit, fetchOpenIssues and main
\* reject in turn, and main().catch ends the process
SnapRelationRejects(k) ==
  /\ snapPc = "issues"
  /\ snapWorkers[k] > 0
  /\ snapPc' = "failed"
  /\ snapWorkers' = [j \in 1..4 |-> 0]
  /\ UNCHANGED <<snapIssues, snapPattern, snapNext, snapProjectsInFlight,
                 snapProjectsDone>>
  /\ UNCHANGED <<pvars, mvars, xvars, wvars, hvars, ivars, evars>>

\* one client.project(pid) fulfils: out[pid] = p; after the last one
\* fetchProjectsById returns
SnapProjectFulfils ==
  /\ snapPc = "projects"
  /\ snapProjectsInFlight > 0
  /\ snapProjectsInFlight' = snapProjectsInFlight - 1
  /\ snapProjectsDone' = snapProjectsDone + 1
  /\ snapPc' = IF snapProjectsInFlight = 1 THEN "done" ELSE "projects"
  /\ UNCHANGED <<snapIssues, snapPattern, snapNext, snapWorkers>>
  /\ UNCHANGED <<pvars, mvars, xvars, wvars, hvars, ivars, evars>>

\* one client.project(pid) rejects: Promise.all and main reject, the process
\* ends
SnapProjectRejects ==
  /\ snapPc = "projects"
  /\ snapProjectsInFlight > 0
  /\ snapPc' = "failed"
  /\ snapProjectsInFlight' = 0
  /\ UNCHANGED <<snapIssues, snapPattern, snapNext, snapWorkers,
                 snapProjectsDone>>
  /\ UNCHANGED <<pvars, mvars, xvars, wvars, hvars, ivars, evars>>

KInit ==
  /\ snapPc = "start"
  /\ snapIssues \in 0..MaxSnapIssues
  /\ snapPattern \in {"none", "one", "each"}
  /\ snapNext = 0 /\ snapWorkers = [j \in 1..4 |-> 0]
  /\ snapProjectsInFlight = 0 /\ snapProjectsDone = 0
  /\ fn = "none" /\ pc = "done"
  /\ calls = <<>> /\ served = <<>> /\ inflight = 0
  /\ out = <<>> /\ after = Null
  /\ cursor = Undefined /\ page = 1 /\ totalCount = 0
  /\ todo = <<>> /\ lastRes = [hasNextPage |-> FALSE, endCursor |-> Null]
  /\ log = <<>> /\ fetchErr = "none"
  /\ ret = Pending
  /\ mlpc = "idle" /\ items = <<>> /\ limit = 0
  /\ i = 0 /\ active = 0
  /\ result = <<>> /\ wstate = <<>> /\ invoked = <<>> /\ jobs = <<>>
  /\ firstFailed = NoIdx /\ doneOrder = <<>> /\ mlRet = MPending
  /\ rel = Undefined /\ rrpc = "idle" /\ rrCalls = 0
  /\ rrAwait = Undefined /\ rrEvent = NoEvent /\ rrRet = RPending
  /\ helper = "none" /\ issues = <<>> /\ projects = NoProjects
  /\ aggpc = "idle" /\ grouped = <<>> /\ rows = <<>> /\ load = <<>>
  /\ foVersion = "none" /\ fopc = "idle" /\ archivedIds = {}
  /\ openIssues = <<>> /\ foRet = Pending
  /\ apiQuery = Undefined /\ apiLimitParam = Undefined /\ apipc = "idle"
  /\ apiLimit = NaN /\ apiAfter = Null /\ apiFetched = 0 /\ apiCalls = 0
  /\ apiMatched = 0 /\ apiStatus = 0 /\ apiSent = 0
  /\ clients = <<>> /\ nextId = 1
  /\ webhooks = [r \in 1..MaxWebhooks |-> NoWebhook]
  /\ pings = 0 /\ broadcasts = <<>> /\ sseWrites = <<>>
  /\ givenIssues = <<>> /\ givenProjects = NoProjects
  /\ argIssues = <<>> /\ argProjects = NoProjects /\ returns = <<>>
  /\ labelName = Undefined /\ wantedState = Undefined /\ ifIssues = <<>>
  /\ ifPageLen = 1 /\ ifPc = "idle" /\ ifPage = 0 /\ ifIdx = 0
  /\ stateResolves = <<>> /\ labelCalls = <<>>
  /\ counts = <<>> /\ totalFetched = 0 /\ totalMatched = 0
  /\ runStreams = <<>> /\ nextClientId = 1
  /\ connections = <<>> /\ emitted = <<>>
  /\ runs = [r \in {"r1", "r2"} |-> "none"]

KNext ==
  \/ SnapMapStart
  \/ \E k \in 1..4 : SnapRelationFulfils(k)
  \/ \E k \in 1..4 : SnapRelationRejects(k)
  \/ SnapProjectFulfils
  \/ SnapProjectRejects

SpecSnapshot == KInit /\ [][KNext]_vars

(* ------------------ aggregation helpers: repeated calls ---------------- *)

\* The objects a helper call works on: the two argument objects, which the
\* caller keeps, and what the call allocates itself (its Maps, arrays and
\* records) and returns. Every statement of a helper that writes to an object
\* - grouped.set, byState.set, byState.get(s)!.push(iss), rows.push,
\* rows.sort, by.set, cur.count += 1, Array.from(by.values()).sort - has an
\* object allocated in the same call as its receiver; issues and projects are
\* read only (for ... of, map, filter, projects[pid]).
Frame(iss, projs) == [issues |-> iss, projects |-> projs, local |-> <<>>]

groupCall(f) ==
  [f EXCEPT !.local = groupIssuesByProjectThenState(f.issues)]

activeCall(f) ==
  [f EXCEPT !.local = computeActiveProjects(f.issues, f.projects)]

\* faulty variant: the loop takes the issues off the argument with shift()
LoadCallShifts(f) ==
  [f EXCEPT !.local = computeAssigneeLoad(f.issues), !.issues = <<>>]
loadCall(f) ==
  [f EXCEPT !.local = computeAssigneeLoad(f.issues)]

\* the issues of a snapshot, with the fields of all three helpers
IssueKinds ==
  {<<Str("p1"), Str("Zeta"), Str("Todo"), Str("uA"), Str("A")>>,
   <<Str("p2"), Str("Alpha"), Str(""), Str("uB"), Str("B")>>,
   <<Null, Null, Str("Done"), Null, Null>>,
   <<Str("p1"), Str("Zeta"), Str("Done"), Str("uB"), Str("B")>>}

\* the projects lookups: every project planned, or p1 not found and the
\* others started
ProjectLookups ==
  {[p \in Pids |-> Project(NameOfProject(p), Str("planned"), Null)],
   [p \in Pids |-> IF p = "p1" THEN NoProject
                   ELSE Project(NameOfProject(p), Str("Started"), Null)]}

\* one more call of a helper on the same arguments: main calls the three
\* helpers on the same openIssues
CallHelper(name) ==
  /\ Len(returns) < MaxCalls
  /\ LET f == CASE name = "group" -> groupCall(Frame(argIssues, argProjects))
                [] name = "active" -> activeCall(Frame(argIssues, argProjects))
                [] name = "load" -> loadCall(Frame(argIssues, argProjects))
     IN /\ argIssues' = f.issues
        /\ argProjects' = f.projects
        /\ returns' = Append(returns, [helper |-> name, value |-> f.local])
  /\ UNCHANGED <<givenIssues, givenProjects>>
  /\ UNCHANGED <<pvars, mvars, xvars, wvars, kvars, ivars, evars>>

HInit ==
  /\ \E n \in 0..MaxCallIssues :
       \E f \in [1..n -> IssueKinds] :
         givenIssues = [k \in 1..n |->
           IssueLite(k, f[k][1], f[k][2], f[k][3], f[k][4], f[k][5])]
  /\ givenProjects \in ProjectLookups
  /\ argIssues = givenIssues /\ argProjects = givenProjects
  /\ returns = <<>>
  /\ fn = "none" /\ pc = "done"
  /\ calls = <<>> /\ served = <<>> /\ inflight = 0
  /\ out = <<>> /\ after = Null
  /\ cursor = Undefined /\ page = 1 /\ totalCount = 0
  /\ todo = <<>> /\ lastRes = [hasNextPage |-> FALSE, endCursor |-> Null]
  /\ log = <<>> /\ fetchErr = "none"
  /\ ret = Pending
  /\ mlpc = "idle" /\ items = <<>> /\ limit = 0
  /\ i = 0 /\ active = 0
  /\ result = <<>> /\ wstate = <<>> /\ invoked = <<>> /\ jobs = <<>>
  /\ firstFailed = NoIdx /\ doneOrder = <<>> /\ mlRet = MPending
  /\ rel = Undefined /\ rrpc = "idle" /\ rrCalls = 0
  /\ rrAwait = Undefined /\ rrEvent = NoEvent /\ rrRet = RPending
  /\ helper = "none" /\ issues = <<>> /\ projects = NoProjects
  /\ aggpc = "idle" /\ grouped = <<>> /\ rows = <<>> /\ load = <<>>
  /\ foVersion = "none" /\ fopc = "idle" /\ archivedIds = {}
  /\ openIssues = <<>> /\ foRet = Pending
  /\ apiQuery = Undefined /\ apiLimitParam = Undefined /\ apipc = "idle"
  /\ apiLimit = NaN /\ apiAfter = Null /\ apiFetched = 0 /\ apiCalls = 0
  /\ apiMatched = 0 /\ apiStatus = 0 /\ apiSent = 0
  /\ clients = <<>> /\ nextId = 1
  /\ webhooks = [r \in 1..MaxWebhooks |-> NoWebhook]
  /\ pings = 0 /\ broadcasts = <<>> /\ sseWrites = <<>>
  /\ snapPc = "idle" /\ snapIssues = 0 /\ snapPattern = "none"
  /\ snapNext = 0 /\ snapWorkers = [j \in 1..4 |-> 0]
  /\ snapProjectsInFlight = 0 /\ snapProjectsDone = 0
  /\ labelName = Undefined /\ wantedState = Undefined /\ ifIssues = <<>>
  /\ ifPageLen = 1 /\ ifPc = "idle" /\ ifPage = 0 /\ ifIdx = 0
  /\ stateResolves = <<>> /\ labelCalls = <<>>
  /\ counts = <<>> /\ totalFetched = 0 /\ totalMatched = 0
  /\ runStreams = <<>> /\ nextClientId = 1
  /\ connections = <<>> /\ emitted = <<>>
  /\ runs = [r \in {"r1", "r2"} |-> "none"]

HNext == \E name \in {"group", "active", "load"} : CallHelper(name)

SpecRepeat == HInit /\ [][HNext]_vars

(* ----------------------------- issuesFiltered -------------------------- *)

\* the command line: --label and --state given or not
LabelArgs == {Undefined, Str("bug")}
StateArgs == {Undefined, Str("started")}

\* the issues the server returns: the name of the issue's workflow state
\* (Null for an issue without state) and the names of its labels
FilterIssueKinds ==
  {[state |-> s, labels |-> ls] :
     s \in {Str("Started"), Str("Todo"), Null}, ls \in {<<>>, <<"Bug">>}}

\* labels.nodes.some(l => l.name.toLowerCase() === name.toLowerCase())
HasLabelByName(labels, name) ==
  \E j \in 1..Len(labels) : ToLowerCase(labels[j]) = ToLowerCase(name.s)

\* issueStateName: s?.name ?? "(No State)" when await issue.state fulfilled
\* with a state of that name
StateNameOf(name) == Coalesce(name, Str("(No State)"))

\* the page a client.issues call returns: the next ifPageLen issues
PageOf(p) ==
  {k \in 1..Len(ifIssues) : (p - 1) * ifPageLen < k /\ k <= p * ifPageLen}
HasNextPage(p) == p * ifPageLen < Len(ifIssues)

\* const s = await issue.state inside issueStateName(issue): the relation of
\* issue k is resolved once more
ResolveState(k, at) ==
  /\ stateResolves' = [stateResolves EXCEPT ![k] = @ + 1]
  /\ ifPc' = at

\* the for loop goes to its next issue, or the page is over: cursor is set and
\* the do loop fetches again or ends
ContinueLoop ==
  ifPc' = IF \E k \in PageOf(ifPage) : k > ifIdx THEN "issue"
          ELSE IF HasNextPage(ifPage) THEN "fetch" ELSE "done"

\* const page = await client.issues(...) fulfils
FilterFetch ==
  /\ ifPc = "fetch"
  /\ ifPage' = ifPage + 1
  /\ ifPc' = IF PageOf(ifPage + 1) # {} THEN "issue"
             ELSE IF HasNextPage(ifPage + 1) THEN "fetch" ELSE "done"
  /\ UNCHANGED <<labelName, wantedState, ifIssues, ifPageLen, ifIdx,
                 stateResolves, labelCalls, counts, totalFetched, totalMatched>>
  /\ UNCHANGED <<pvars, mvars, xvars, wvars, kvars, hvars, evars>>

\* await client.issues(...) rejects: main rejects
FilterFetchRejects ==
  /\ ifPc = "fetch"
  /\ ifPc' = "failed"
  /\ UNCHANGED <<labelName, wantedState, ifIssues, ifPageLen, ifPage, ifIdx,
                 stateResolves, labelCalls, counts, totalFetched, totalMatched>>
  /\ UNCHANGED <<pvars, mvars, xvars, wvars, kvars, hvars, evars>>

\* the body of for (const issue of page.nodes) up to its first await
FilterIssue ==
  /\ ifPc = "issue"
  /\ ifIdx' = ifIdx + 1
  /\ totalFetched' = totalFetched + 1
  /\ IF ~Not(labelName)
       THEN /\ labelCalls' = [labelCalls EXCEPT ![ifIdx + 1] = @ + 1]
            /\ ifPc' = "label"
            /\ UNCHANGED stateResolves
       ELSE /\ ResolveState(ifIdx + 1,
                            IF ~Not(wantedState) THEN "filter" ELSE "count")
            /\ UNCHANGED labelCalls
  /\ UNCHANGED <<labelName, wantedState, ifIssues, ifPageLen, ifPage, counts,
                 totalMatched>>
  /\ UNCHANGED <<pvars, mvars, xvars, wvars, kvars, hvars, evars>>

\* await issue.labels() fulfils: if (!hasLabel) continue
FilterLabels ==
  /\ ifPc = "label"
  /\ IF ~HasLabelByName(ifIssues[ifIdx].labels, labelName)
       THEN ContinueLoop /\ UNCHANGED stateResolves
       ELSE ResolveState(ifIdx, IF ~Not(wantedState) THEN "filter" ELSE "count")
  /\ UNCHANGED <<labelName, wantedState, ifIssues, ifPageLen, ifPage, ifIdx,
                 labelCalls, counts, totalFetched, totalMatched>>
  /\ UNCHANGED <<pvars, mvars, xvars, wvars, kvars, hvars, evars>>

\* await issue.labels() rejects: main rejects
FilterLabelsReject ==
  /\ ifPc = "label"
  /\ ifPc' = "failed"
  /\ UNCHANGED <<labelName, wantedState, ifIssues, ifPageLen, ifPage, ifIdx,
                 stateResolves, labelCalls, counts, totalFetched, totalMatched>>
  /\ UNCHANGED <<pvars, mvars, xvars, wvars, kvars, hvars, evars>>

\* const st = await issueStateName(issue) returns st: the relation fulfilled
\* or, inside issueStateName's catch, rejected;
\* if (st.toLowerCase() !== wantedState.toLowerCase()) continue;
\* const stateName = await issueStateName(issue)
FilterByState(rejected) ==
  /\ ifPc = "filter"
  /\ LET st == IF rejected THEN Str("(No State)")
               ELSE StateNameOf(ifIssues[ifIdx].state)
     IN IF ToLowerCase(st.s) # ToLowerCase(wantedState.s)
          THEN ContinueLoop /\ UNCHANGED stateResolves
          ELSE ResolveState(ifIdx, "count")
  /\ UNCHANGED <<labelName, wantedState, ifIssues, ifPageLen, ifPage, ifIdx,
                 labelCalls, counts, totalFetched, totalMatched>>
  /\ UNCHANGED <<pvars, mvars, xvars, wvars, kvars, hvars, evars>>

\* const stateName = await issueStateName(issue) returns;
\* counts.set(stateName, (counts.get(stateName) ?? 0) + 1); totalMatched += 1
FilterCount(rejected) ==
  /\ ifPc = "count"
  /\ LET stateName == IF rejected THEN Str("(No State)")
                      ELSE StateNameOf(ifIssues[ifIdx].state)
     IN counts' = MapSet(counts, stateName,
                         (IF MapHas(counts, stateName)
                            THEN MapGet(counts, stateName) ELSE 0) + 1)
  /\ totalMatched' = totalMatched + 1
  /\ ContinueLoop
  /\ UNCHANGED <<labelName, wantedState, ifIssues, ifPageLen, ifPage, ifIdx,
                 stateResolves, labelCalls, totalFetched>>
  /\ UNCHANGED <<pvars, mvars, xvars, wvars, kvars, hvars, evars>>

IInit ==
  /\ labelName \in LabelArgs
  /\ wantedState \in StateArgs
  /\ \E n \in 0..MaxFilterIssues : ifIssues \in [1..n -> FilterIssueKinds]
  /\ ifPageLen \in 1..MaxPageLen
  /\ ifPc = "fetch" /\ ifPage = 0 /\ ifIdx = 0
  /\ stateResolves = [k \in 1..Len(ifIssues) |-> 0]
  /\ labelCalls = [k \in 1..Len(ifIssues) |-> 0]
  /\ counts = <<>> /\ totalFetched = 0 /\ totalMatched = 0
  /\ fn = "none" /\ pc = "done"
  /\ calls = <<>> /\ served = <<>> /\ inflight = 0
  /\ out = <<>> /\ after = Null
  /\ cursor = Undefined /\ page = 1 /\ totalCount = 0
  /\ todo = <<>> /\ lastRes = [hasNextPage |-> FALSE, endCursor |-> Null]
  /\ log = <<>> /\ fetchErr = "none"
  /\ ret = Pending
  /\ mlpc = "idle" /\ items = <<>> /\ limit = 0
  /\ i = 0 /\ active = 0
  /\ result = <<>> /\ wstate = <<>> /\ invoked = <<>> /\ jobs = <<>>
  /\ firstFailed = NoIdx /\ doneOrder = <<>> /\ mlRet = MPending
  /\ rel = Undefined /\ rrpc = "idle" /\ rrCalls = 0
  /\ rrAwait = Undefined /\ rrEvent = NoEvent /\ rrRet = RPending
  /\ helper = "none" /\ issues = <<>> /\ projects = NoProjects
  /\ aggpc = "idle" /\ grouped = <<>> /\ rows = <<>> /\ load = <<>>
  /\ foVersion = "none" /\ fopc = "idle" /\ archivedIds = {}
  /\ openIssues = <<>> /\ foRet = Pending
  /\ apiQuery = Undefined /\ apiLimitParam = Undefined /\ apipc = "idle"
  /\ apiLimit = NaN /\ apiAfter = Null /\ apiFetched = 0 /\ apiCalls = 0
  /\ apiMatched = 0 /\ apiStatus = 0 /\ apiSent = 0
  /\ clients = <<>> /\ nextId = 1
  /\ webhooks = [r \in 1..MaxWebhooks |-> NoWebhook]
  /\ pings = 0 /\ broadcasts = <<>> /\ sseWrites = <<>>
  /\ snapPc = "idle" /\ snapIssues = 0 /\ snapPattern = "none"
  /\ snapNext = 0 /\ snapWorkers = [j \in 1..4 |-> 0]
  /\ snapProjectsInFlight = 0 /\ snapProjectsDone = 0
  /\ givenIssues = <<>> /\ givenProjects = NoProjects
  /\ argIssues = <<>> /\ argProjects = NoProjects /\ returns = <<>>
  /\ runStreams = <<>> /\ nextClientId = 1
  /\ connections = <<>> /\ emitted = <<>>
  /\ runs = [r \in {"r1", "r2"} |-> "none"]

INext ==
  \/ FilterFetch
  \/ FilterFetchRejects
  \/ FilterIssue
  \/ FilterLabels
  \/ FilterLabelsReject
  \/ \E rejected \in BOOLEAN : FilterByState(rejected)
  \/ \E rejected \in BOOLEAN : FilterCount(rejected)

SpecFiltered == IInit /\ [][INext]_vars

(* ------------------------------ run events ----------------------------- *)

\* the run ids in use, and what a GET /run-events request may carry as
\* req.query.runId
RunIds == {"r1", "r2"}
RunIdParams == {Undefined, Str("")} \cup {Str(r) : r \in RunIds}

\* a RunClient { id, res }: res is the connection it writes to
RunClient(id, res) == [id |-> id, res |-> res]

\* an SSE connection: the id it was given, its runId, whether its close event
\* has fired, what was written to it, and the number of events emitted when
\* it subscribed and when it closed (NoIdx while open)
Connection(id, runId, at) ==
  [id |-> id, runId |-> runId, closed |-> FALSE, received |-> <<"hello">>,
   subscribedAt |-> at, closedAt |-> NoIdx]

\* runStreams.get(runId) ?? []
StreamList(runId) ==
  IF MapHas(runStreams, runId) THEN MapGet(runStreams, runId) ELSE <<>>

\* list.filter((c) => c.id !== id)
\* (faulty variant: the closed client stays in the list)
WithoutClientKeepsAll(list, id) == list
WithoutClient(list, id) == SelectSeq(list, LAMBDA c : c.id # id)

\* the connections emitRun(runId, ...) writes to: for (const c of list) c.res
\* (faulty variant: the clients of every run are written to)
RecipientsOfEveryRun(runId) ==
  UNION {{runStreams[j].val[k].res : k \in 1..Len(runStreams[j].val)} :
           j \in 1..Len(runStreams)}
Recipients(runId) ==
  {StreamList(runId)[k].res : k \in 1..Len(StreamList(runId))}

\* emitRun(runId, payload): the event gets the next serial number and is
\* written to every recipient
emitRun(runId, kind) ==
  /\ emitted' = Append(emitted, [runId |-> runId, kind |-> kind])
  /\ connections' =
       [n \in 1..Len(connections) |->
          IF n \in Recipients(runId)
            THEN [connections[n] EXCEPT
                    !.received = Append(@, Len(emitted) + 1)]
            ELSE connections[n]]

\* GET /run-events: 400 without runId, else a new client of that run
RunEventsGet(param) ==
  /\ LET runId == String(Or(param, Str("")))
     IN IF runId = ""
          THEN UNCHANGED <<runStreams, nextClientId, connections>>
          ELSE /\ Len(connections) < MaxRunClients
               /\ nextClientId' = nextClientId + 1
               /\ runStreams' =
                    MapSet(runStreams, runId,
                           Append(StreamList(runId),
                                  RunClient(nextClientId, Len(connections) + 1)))
               /\ connections' =
                    Append(connections,
                           Connection(nextClientId, runId, Len(emitted)))
  /\ UNCHANGED <<emitted, runs>>
  /\ UNCHANGED <<pvars, mvars, xvars, wvars, kvars, hvars, ivars>>

\* req.on("close") of connection n
RunEventsClose(n) ==
  /\ n \in 1..Len(connections) /\ ~connections[n].closed
  /\ runStreams' =
       MapSet(runStreams, connections[n].runId,
              WithoutClient(StreamList(connections[n].runId), connections[n].id))
  /\ connections' = [connections EXCEPT ![n].closed = TRUE,
                                        ![n].closedAt = Len(emitted)]
  /\ UNCHANGED <<nextClientId, emitted, runs>>
  /\ UNCHANGED <<pvars, mvars, xvars, wvars, kvars, hvars, ivars>>

\* the bodies of a POST /api/run request: type and id
Selections ==
  {[type |-> Undefined, id |-> Undefined], [type |-> Str("none"), id |-> Undefined],
   [type |-> Str("project"), id |-> Undefined],
   [type |-> Str("project"), id |-> Str("p1")],
   [type |-> Str("issue"), id |-> Str("i1")]}

\* POST /api/run (and POST /api/analyze, which has the same body but for the
\* validation): 400 for an invalid selection; else a new runId, the 202
\* response that carries it, the child process and the "started" event, all in
\* one turn of the handler
ApiRun(selection, r) ==
  /\ runs[r] = "none"
  /\ IF Not(selection.type) \/ (selection.type # Str("none") /\ Not(selection.id))
       THEN UNCHANGED <<runs, emitted, connections>>
       ELSE /\ Len(emitted) < MaxRunEvents
            /\ runs' = [runs EXCEPT ![r] = "running"]
            /\ emitRun(r, "started")
  /\ UNCHANGED <<runStreams, nextClientId>>
  /\ UNCHANGED <<pvars, mvars, xvars, wvars, kvars, hvars, ivars>>

\* POST /api/run: getLinearApiKey() or spawn throws after the 202 response;
\* nothing is emitted for the run
ApiRunFails(r) ==
  /\ runs[r] = "none"
  /\ runs' = [runs EXCEPT ![r] = "over"]
  /\ UNCHANGED <<runStreams, nextClientId, connections, emitted>>
  /\ UNCHANGED <<pvars, mvars, xvars, wvars, kvars, hvars, ivars>>

\* child.stdout.on("data") / child.stderr.on("data")
ChildData(r) ==
  /\ runs[r] = "running"
  /\ Len(emitted) < MaxRunEvents
  /\ emitRun(r, "line")
  /\ UNCHANGED <<runStreams, nextClientId, runs>>
  /\ UNCHANGED <<pvars, mvars, xvars, wvars, kvars, hvars, ivars>>

\* child.on("error")
ChildError(r) ==
  /\ runs[r] = "running"
  /\ Len(emitted) < MaxRunEvents
  /\ runs' = [runs EXCEPT ![r] = "errored"]
  /\ emitRun(r, "error")
  /\ UNCHANGED <<runStreams, nextClientId>>
  /\ UNCHANGED <<pvars, mvars, xvars, wvars, kvars, hvars, ivars>>

\* child.on("close")
ChildClose(r) ==
  /\ runs[r] \in {"running", "errored"}
  /\ Len(emitted) < MaxRunEvents
  /\ runs' = [runs EXCEPT ![r] = "over"]
  /\ emitRun(r, "finished")
  /\ UNCHANGED <<runStreams, nextClientId>>
  /\ UNCHANGED <<pvars, mvars, xvars, wvars, kvars, hvars, ivars>>

EInit ==
  /\ runStreams = <<>> /\ nextClientId = 1
  /\ connections = <<>> /\ emitted = <<>>
  /\ runs = [r \in {"r1", "r2"} |-> "none"]
  /\ fn = "none" /\ pc = "done"
  /\ calls = <<>> /\ served = <<>> /\ inflight = 0
  /\ out = <<>> /\ after = Null
  /\ cursor = Undefined /\ page = 1 /\ totalCount = 0
  /\ todo = <<>> /\ lastRes = [hasNextPage |-> FALSE, endCursor |-> Null]
  /\ log = <<>> /\ fetchErr = "none"
  /\ ret = Pending
  /\ mlpc = "idle" /\ items = <<>> /\ limit = 0
  /\ i = 0 /\ active = 0
  /\ result = <<>> /\ wstate = <<>> /\ invoked = <<>> /\ jobs = <<>>
  /\ firstFailed = NoIdx /\ doneOrder = <<>> /\ mlRet = MPending
  /\ rel = Undefined /\ rrpc = "idle" /\ rrCalls = 0
  /\ rrAwait = Undefined /\ rrEvent = NoEvent /\ rrRet = RPending
  /\ helper = "none" /\ issues = <<>> /\ projects = NoProjects
  /\ aggpc = "idle" /\ grouped = <<>> /\ rows = <<>> /\ load = <<>>
  /\ foVersion = "none" /\ fopc = "idle" /\ archivedIds = {}
  /\ openIssues = <<>> /\ foRet = Pending
  /\ apiQuery = Undefined /\ apiLimitParam = Undefined /\ apipc = "idle"
  /\ apiLimit = NaN /\ apiAfter = Null /\ apiFetched = 0 /\ apiCalls = 0
  /\ apiMatched = 0 /\ apiStatus = 0 /\ apiSent = 0
  /\ clients = <<>> /\ nextId = 1
  /\ webhooks = [r \in 1..MaxWebhooks |-> NoWebhook]
  /\ pings = 0 /\ broadcasts = <<>> /\ sseWrites = <<>>
  /\ snapPc = "idle" /\ snapIssues = 0 /\ snapPattern = "none"
  /\ snapNext = 0 /\ snapWorkers = [j \in 1..4 |-> 0]
  /\ snapProjectsInFlight = 0 /\ snapProjectsDone = 0
  /\ givenIssues = <<>> /\ givenProjects = NoProjects
  /\ argIssues = <<>> /\ argProjects = NoProjects /\ returns = <<>>
  /\ labelName = Undefined /\ wantedState = Undefined /\ ifIssues = <<>>
  /\ ifPageLen = 1 /\ ifPc = "idle" /\ ifPage = 0 /\ ifIdx = 0
  /\ stateResolves = <<>> /\ labelCalls = <<>>
  /\ counts = <<>> /\ totalFetched = 0 /\ totalMatched = 0

ENext ==
  \/ \E param \in RunIdParams : RunEventsGet(param)
  \/ \E n \in 1..MaxRunClients : RunEventsClose(n)
  \/ \E selection \in Selections : \E r \in RunIds : ApiRun(selection, r)
  \/ \E r \in RunIds : ApiRunFails(r)
  \/ \E r \in RunIds : ChildData(r)
  \/ \E r \in RunIds : ChildError(r)
  \/ \E r \in RunIds : ChildClose(r)

SpecRunEvents == EInit /\ [][ENext]_vars

(* ----------------------- properties of the paginators ------------------ *)
Last(q) == q[Len(q)]

\* a page after which the loop goes on: hasNextPage with an endCursor that is a
\* non-empty string (null, undefined and "" are all "no cursor" to while (after))
HasCursor(p) == p.endCursor.t = "string" /\ p.endCursor.s # ""
Continues(p) == p.hasNextPage /\ HasCursor(p)

\* C1: when every page but the last reports hasNextPage = true with a cursor and
\* the last reports hasNextPage = false, paginate resolves with exactly the
\* concatenation of the pages' nodes, in page order and in node order: out is
\* at every moment the concatenation of the pages served, paginate does not
\* stop at a page that has a next page and a cursor, and it resolves with out.
C1_PaginateConcatenates ==
  fn = "paginate" =>
    /\ out = Flatten(served)
    /\ (ret.state = "fulfilled") = (pc = "done")
    /\ pc = "done" =>
         /\ ~Continues(Last(served))
         /\ \A k \in 1..(Len(served) - 1) : Continues(served[k])
         /\ ret.items = Flatten(served)

C1_Witness ==
  /\ fn = "paginate" /\ pc = "done"
  /\ Len(served) = 3
  /\ \A k \in 1..2 : Len(served[k].nodes) = 2
  /\ ~served[3].hasNextPage
  /\ ret.items = <<1, 2, 3, 4, 5>>

\* C2: in paginate and in listIssuesPaginated the first fetch call gets an
\* absent cursor (null, resp. undefined) and fetch call i+1 gets exactly the
\* endCursor that fetch call i returned.
C2_CursorThreading ==
  /\ calls # <<>> =>
       calls[1] = (IF fn = "paginate" THEN Null ELSE Undefined)
  /\ \A k \in 1..(Len(calls) - 1) : calls[k + 1] = served[k].endCursor

C2_Witness ==
  /\ fn = "listIssuesPaginated"
  /\ Len(calls) = 3
  /\ calls[2] = Str("c1") /\ calls[3] = Str("c2")

C2_WitnessPaginate ==
  /\ fn = "paginate"
  /\ Len(calls) = 3
  /\ calls[2] = Str("c2") /\ calls[3] = Str("c1")

\* C3 as stated: paginate fetches again after every page that reports
\* hasNextPage = true and stops exactly after the first page that reports
\* hasNextPage = false; the number of fetch calls is the number of pages up to
\* that page and the result holds all their nodes.
C3_StopsOnlyOnHasNextPageFalse ==
  fn = "paginate" =>
    /\ \A k \in 1..(Len(served) - 1) : served[k].hasNextPage
    /\ pc = "done" =>
         /\ ~Last(served).hasNextPage
         /\ Len(calls) = Len(served)
         /\ Len(ret.items) = Len(Flatten(served))

\* C3 amended: paginate fetches again after every page that reports
\* hasNextPage = true together with a non-empty endCursor, and stops exactly
\* after the first page that reports hasNextPage = false or carries no
\* endCursor (null, undefined or ""); the number of fetch calls is the number
\* of pages up to that page and the result holds all their nodes. The only
\* states in which paginate is neither stopped nor fetching are the ones it
\* leaves by fetching again.
C3_StopsOnFirstPageWithoutNext ==
  fn = "paginate" =>
    /\ \A k \in 1..(Len(served) - 1) : Continues(served[k])
    /\ (pc = "fetch" /\ served # <<>>) => Continues(Last(served))
    /\ pc = "done" =>
         /\ ~Continues(Last(served))
         /\ Len(calls) = Len(served)
         /\ Len(ret.items) = Len(Flatten(served))

C3_Witness ==
  /\ fn = "paginate" /\ pc = "done"
  /\ Len(served) = 2
  /\ served[2].hasNextPage /\ served[2].endCursor = Null
  /\ Len(ret.items) = 4

\* C4: when fetch fails on page k, paginate has called fetch exactly k times
\* (the k-1 pages served and the failed call, no retry), its promise is
\* rejected with the error of that fetch, and none of the nodes collected from
\* pages 1..k-1 is handed to the caller.
C4_FetchFailureAllOrNothing ==
  (fn = "paginate" /\ fetchErr # "none") =>
    /\ pc = "failed"
    /\ Len(calls) = Len(served) + 1
    /\ inflight = 0
    /\ ret.state = "rejected"
    /\ ret.error = fetchErr
    /\ ret.items = <<>>

C4_Witness ==
  /\ fn = "paginate" /\ fetchErr = "E2"
  /\ Len(served) = 2 /\ Len(out) = 4
  /\ ret.state = "rejected"

\* C5: paginate requests pages strictly sequentially: at most one fetch call
\* is in flight, and every fetch call but the last one issued has returned its
\* page (or, for the last one, failed).
C5_Sequential ==
  fn = "paginate" =>
    /\ inflight \in {0, 1}
    /\ (inflight = 1) = (pc = "await")
    /\ Len(calls) =
         Len(served) + inflight + (IF fetchErr # "none" THEN 1 ELSE 0)

C5_Witness ==
  /\ fn = "paginate" /\ pc = "await"
  /\ Len(calls) = 3 /\ Len(served) = 2 /\ inflight = 1

(* ------------------------- properties of mapLimit ---------------------- *)
Min(a, b) == IF a <= b THEN a ELSE b
\* the workers whose promise is still pending
Running == {k \in DOMAIN wstate : wstate[k] = "running"}
\* the result slots that have been written
Filled == {k \in DOMAIN result : result[k] # Empty}

\* C6: for every items list, every limit and every completion order, slot idx
\* of result holds the value the worker returned for items[idx] as soon as it
\* is written, and the array mapLimit resolves with is aligned with items.
C6_PositionalAlignment ==
  mlpc = "called" =>
    /\ DOMAIN result = 0..(Len(items) - 1)
    /\ \A k \in Filled : result[k] = WorkerVal(items[k + 1], k)
    /\ mlRet.state = "fulfilled" => Filled = 0..(Len(items) - 1)

C6_Witness ==
  /\ mlRet.state = "fulfilled"
  /\ Len(items) = 4 /\ limit = 2
  /\ doneOrder = <<1, 2, 0, 3>>
  /\ \A k \in 0..3 : result[k] = WorkerVal(ItemAt(k + 1), k)

\* C7: in every state of a mapLimit run with limit k, at most k worker
\* invocations have been started and have not yet settled.
C7_LimitRespected ==
  /\ Cardinality(Running) <= active
  /\ active <= limit

C7_Witness ==
  /\ Len(items) = 4 /\ limit = 2
  /\ Cardinality(Running) = 2
  /\ i = 4
  /\ firstFailed = NoIdx

\* C8: mapLimit called with an empty items list resolves with an empty array
\* and invokes the worker never, whatever the limit.
C8_EmptyItems ==
  (mlpc = "called" /\ items = <<>>) =>
    /\ mlRet.state = "fulfilled"
    /\ DOMAIN result = {}
    /\ invoked = <<>>

C8_Witness ==
  /\ mlpc = "called" /\ items = <<>> /\ limit = 0
  /\ mlRet.state = "fulfilled"

C8_WitnessLimit ==
  /\ mlpc = "called" /\ items = <<>> /\ limit = MaxLimit
  /\ mlRet.state = "fulfilled"

\* the error mapLimit must reject with: that of the worker that failed first
FirstError == WorkerErr(items[firstFailed + 1], firstFailed)

C9_Outcome ==
  /\ mlRet.state = "rejected" => (firstFailed # NoIdx /\ mlRet.error = FirstError)
  /\ mlRet.state = "fulfilled" =>
       (firstFailed = NoIdx /\ Filled = 0..(Len(items) - 1))
  /\ firstFailed # NoIdx => mlRet.state # "fulfilled"

\* C9: once a worker has failed, the promise of mapLimit is rejected, with
\* the error of the worker that failed first; a rejected promise is changed
\* by no later success or failure; and mapLimit never resolves with an array
\* that has an unset slot.
C9_FirstFailureWins ==
  /\ []C9_Outcome
  /\ [][mlRet.state = "rejected" => mlRet' = mlRet]_vars
  /\ (firstFailed # NoIdx) ~> (mlRet.state = "rejected")

C9_Witness ==
  /\ Len(items) = 3 /\ limit = 3 /\ i = 3
  /\ mlRet.state = "rejected"
  /\ firstFailed = 1
  /\ mlRet.error = WorkerErr(ItemAt(2), 1)
  /\ wstate[0] = "rejected" /\ wstate[2] = "fulfilled"
  /\ jobs = <<>>

\* C10: in a run without failure and with limit >= 1, after the first pump
\* and after every handled completion the number of active workers is
\* min(limit, number of items whose completion has not been handled); with
\* limit >= items.length every worker is started by the first pump.
C10_PoolSaturated ==
  (mlpc = "called" /\ firstFailed = NoIdx /\ limit >= 1) =>
    /\ active = Min(limit, Len(items) - Cardinality(Filled))
    /\ limit >= Len(items) => (i = Len(items) /\ Len(invoked) = Len(items))

C10_Witness ==
  /\ mlpc = "called" /\ firstFailed = NoIdx
  /\ Len(items) = 4 /\ limit = 2
  /\ Cardinality(Filled) = 3 /\ active = 1

C10_WitnessAllStart ==
  /\ mlpc = "called" /\ firstFailed = NoIdx
  /\ Len(items) = 3 /\ limit = 3
  /\ Cardinality(Running) = 3 /\ doneOrder = <<>> /\ jobs = <<>>

\* C23: once some worker has failed, mapLimit starts no further worker: no
\* step taken after the first failure adds a worker invocation.
C23_HardStop == [][firstFailed # NoIdx => invoked' = invoked]_vars

\* the worker invocations of a run that started its first k workers
InOrder(k) == [j \in 1..k |-> <<items[j], j - 1>>]

\* C24: in a run without failure the worker invocations are, in order, those
\* for the indices 0, 1, 2, ... with arguments (items[idx], idx), each once and
\* none for an index outside 0..n-1; and when the returned promise is resolved
\* all n workers were invoked and have completed, every .then callback has
\* run and every result slot is filled.
C24_EachIndexOnceInOrder ==
  (mlpc = "called" /\ firstFailed = NoIdx) =>
    /\ i <= Len(items)
    /\ invoked = InOrder(i)
    /\ mlRet.state = "fulfilled" =>
         /\ i = Len(items)
         /\ \A k \in 0..(Len(items) - 1) : wstate[k] = "fulfilled"
         /\ Len(doneOrder) = Len(items)
         /\ {doneOrder[j] : j \in 1..Len(doneOrder)} = 0..(Len(items) - 1)
         /\ Filled = 0..(Len(items) - 1)
         /\ active = 0 /\ jobs = <<>>

C24_Witness ==
  /\ mlpc = "called" /\ firstFailed = NoIdx
  /\ Len(items) = 4 /\ limit = 3
  /\ mlRet.state = "fulfilled"
  /\ invoked = <<<<ItemAt(1), 0>>, <<ItemAt(2), 1>>, <<ItemAt(3), 2>>,
                 <<ItemAt(4), 3>>>>
  /\ doneOrder = <<2, 0, 3, 1>>

\* C24, before the end: two workers have completed, the fourth is not started
C24_WitnessMidRun ==
  /\ mlpc = "called" /\ firstFailed = NoIdx
  /\ Len(items) = 4 /\ limit = 2
  /\ mlRet.state = "pending"
  /\ i = 3 /\ doneOrder = <<1>> /\ Cardinality(Running) = 2

\* C25: a mapLimit call with a limit >= 1 whose workers all settle is
\* eventually settled itself: its promise is resolved or rejected.
C25_AlwaysSettles ==
  (mlpc = "called" /\ limit >= 1) ~> (mlRet.state # "pending")

C25_Witness ==
  /\ mlpc = "called" /\ limit = 1 /\ Len(items) = 4
  /\ mlRet.state = "fulfilled"
  /\ doneOrder = <<0, 1, 2, 3>>

C25_WitnessRejected ==
  /\ mlpc = "called" /\ limit = 2 /\ Len(items) = 4
  /\ mlRet.state = "rejected"
  /\ firstFailed = 3 /\ jobs = <<>> /\ Running = {}

(* ----------------------- properties of resolveRelation ----------------- *)
\* the clauses of the resolver's contract that do not depend on how a concrete
\* input is treated: an absent relation gives null; a function relation is
\* invoked exactly once and what it returns, or what the promise it returns
\* fulfils with, is the result; a promise relation gives what it fulfils with
ResolvesLazyShapes ==
  /\ rel \in {Null, Undefined} => rrRet = RFulfilled(Null)
  /\ IsFunction(rel) =>
       /\ rrCalls = 1
       /\ rrEvent.kind \in {"returned", "fulfilled"} =>
            rrRet = RFulfilled(rrEvent.val)
  /\ HasThen(rel) =>
       /\ rrCalls = 0
       /\ rrEvent.kind = "fulfilled" => rrRet = RFulfilled(rrEvent.val)

C11_WitnessObject ==
  /\ rrpc = "done"
  /\ rel = Obj("o2")
  /\ rrRet = RFulfilled(Obj("o2"))

\* C12: resolveRelation never swallows a failure: when the callable relation
\* throws or returns a rejecting promise, or the promise relation rejects, the
\* returned promise rejects with that same error and never resolves to null or
\* a default value; and it rejects in no other case.
C12_FailurePropagates ==
  rrpc = "done" =>
    /\ rrEvent.kind \in {"threw", "rejected"} =>
         rrRet = RRejected(rrEvent.error)
    /\ rrRet.state = "rejected" => rrEvent.kind \in {"threw", "rejected"}
    /\ rrRet.state # "pending"

\* a function relation returned a promise that rejected with "boom", and
\* resolveRelation rejected with "boom"
C12_Witness ==
  /\ rrpc = "done"
  /\ IsFunction(rel)
  /\ rrCalls = 1
  /\ rrEvent = Event("rejected", Undefined, "boom")
  /\ rrRet = RRejected("boom")

\* a function relation threw
C12_WitnessThrow ==
  /\ rrpc = "done"
  /\ IsFunction(rel)
  /\ rrEvent.kind = "threw"
  /\ rrRet = RRejected(rrEvent.error)

(* --------------------- properties of the aggregation helpers ----------- *)
\* the positions <<a, b, c>> of the grouping: issue c of state bucket b of
\* project bucket a
Positions ==
  UNION {UNION {{<<a, b, c>> : c \in 1..Len(grouped[a].val[b].val)} :
                b \in 1..Len(grouped[a].val)} :
         a \in 1..Len(grouped)}
IssueAt(pos) == grouped[pos[1]].val[pos[2]].val[pos[3]]
ProjectKeyAt(pos) == grouped[pos[1]].key.s
StateKeyAt(pos) == grouped[pos[1]].val[pos[2]].key.s

\* the bucket names the claim gives an issue
ProjectBucketOf(iss) ==
  IF iss.projectName.t \in {"null", "undefined"} THEN "(No Project)"
  ELSE iss.projectName.s
StateBucketOf(iss) ==
  IF iss.stateName.t \in {"null", "undefined"} \/ iss.stateName.s = ""
    THEN "(No State)"
  ELSE iss.stateName.s

\* C13: groupIssuesByProjectThenState places every input issue in exactly one
\* (project, state) bucket: the project bucket named by its project name, or
\* "(No Project)" when the project name is absent, and inside it the state
\* bucket named by its state name, or "(No State)" when the state name is
\* absent (for the string-typed stateName: empty); no issue is dropped or put
\* in two buckets, so the bucket sizes sum to the number of input issues.
\* Bucket names are not repeated.
C13_OneBucketPerIssue ==
  (helper = "group" /\ aggpc = "done") =>
    /\ \A n \in 1..Len(issues) :
         \E pos \in Positions :
           /\ IssueAt(pos) = issues[n]
           /\ ProjectKeyAt(pos) = ProjectBucketOf(issues[n])
           /\ StateKeyAt(pos) = StateBucketOf(issues[n])
           /\ \A other \in Positions : IssueAt(other) = issues[n] => other = pos
    /\ Cardinality(Positions) = Len(issues)
    /\ \A a, b \in 1..Len(grouped) : grouped[a].key = grouped[b].key => a = b
    /\ \A a \in 1..Len(grouped) : \A b, c \in 1..Len(grouped[a].val) :
         grouped[a].val[b].key = grouped[a].val[c].key => b = c

\* an issue without project name and with an empty state name sits in
\* ("(No Project)", "(No State)"), next to issues in named buckets
C13_Witness ==
  /\ helper = "group" /\ aggpc = "done"
  /\ Len(issues) = 3
  /\ issues[1].projectName = Str("Alpha") /\ issues[1].stateName = Str("Todo")
  /\ issues[2].projectName = Null /\ issues[2].stateName = Str("")
  /\ issues[3].projectName = Str("Alpha") /\ issues[3].stateName = Str("")
  /\ Len(grouped) = 2
  /\ grouped[2].key = Str("(No Project)")
  /\ grouped[2].val[1].key = Str("(No State)")
  /\ grouped[2].val[1].val = <<issues[2]>>
  /\ Len(grouped[1].val) = 2

\* the claim's conditions for a project to be listed, and its open count
ReferencedBy(pid) == {n \in 1..Len(issues) : issues[n].projectId = Str(pid)}
IsListed(pid) ==
  /\ ReferencedBy(pid) # {}
  /\ projects[pid].t = "object"
  /\ projects[pid].state \in
       {Str("planned"), Str("Planned"), Str("started"), Str("Started")}
  /\ projects[pid].archivedAt \in {Null, Undefined}

\* C14: computeActiveProjects returns exactly one row for each project that is
\* referenced by at least one issue, is present in the projects lookup, has
\* status planned or started (in any letter case) and is not archived, and no
\* other row; each row's openCount equals the number of input issues whose
\* projectId is that project's id; rows are sorted by openCount descending,
\* ties by project name ascending.
C14_ActiveProjectRows ==
  (helper = "active" /\ aggpc = "done") =>
    /\ \A pid \in Pids :
         Cardinality({j \in 1..Len(rows) : rows[j].projectId = pid})
           = IF IsListed(pid) THEN 1 ELSE 0
    /\ \A j \in 1..Len(rows) :
         /\ rows[j].projectId \in Pids
         /\ rows[j].openCount = Cardinality(ReferencedBy(rows[j].projectId))
    /\ \A j, k \in 1..Len(rows) :
         j < k =>
           \/ rows[j].openCount > rows[k].openCount
           \/ /\ rows[j].openCount = rows[k].openCount
              /\ NameRank(rows[j].projectName) <= NameRank(rows[k].projectName)

\* three listed projects with one issue each come out in name order, not in
\* the order the issues refer to them
C14_Witness ==
  /\ helper = "active" /\ aggpc = "done"
  /\ Len(issues) = 3
  /\ issues[1].projectId = Str("p1")
  /\ Len(rows) = 3
  /\ rows[1].projectName = "(Unnamed Project)"
  /\ rows[2].projectName = "Alpha"
  /\ rows[3].projectName = "Zeta"
  /\ rows[3].projectId = "p1"

\* a project with two issues comes before one with one issue; a referenced
\* archived project and an issue without project give no row
C14_WitnessCounts ==
  /\ helper = "active" /\ aggpc = "done"
  /\ Len(issues) = 3
  /\ issues[1].projectId = Str("p2")
  /\ issues[2].projectId = Str("p1")
  /\ issues[3].projectId = Str("p1")
  /\ projects["p3"].archivedAt # Null
  /\ Len(rows) = 2
  /\ rows[1].projectId = "p1" /\ rows[1].openCount = 2
  /\ rows[2].projectId = "p2" /\ rows[2].openCount = 1

\* the key and the display name the claim gives an issue's assignee
AssigneeKeyOf(iss) ==
  IF iss.assigneeId.t \in {"null", "undefined"} THEN "(unassigned)"
  ELSE iss.assigneeId.s
AssigneeKeys == {AssigneeKeyOf(issues[n]) : n \in 1..Len(issues)}
IssuesOf(key) == {n \in 1..Len(issues) : AssigneeKeyOf(issues[n]) = key}

RECURSIVE SumOfCounts(_)
SumOfCounts(s) == IF s = <<>> THEN 0 ELSE Head(s).count + SumOfCounts(Tail(s))

\* C15: computeAssigneeLoad returns one row per distinct assignee id of the
\* input, with all issues lacking an assignee counted in a single
\* "(unassigned)" row; a row's count is the number of issues of its assignee;
\* the row counts sum to the number of input issues; and the rows are ordered
\* by count descending with ties broken by ascending name.
C15_AssigneeLoadRows ==
  (helper = "load" /\ aggpc = "done") =>
    /\ Len(load) = Cardinality(AssigneeKeys)
    /\ \E f \in [1..Len(load) -> AssigneeKeys] :
         /\ \A j, k \in 1..Len(load) : f[j] = f[k] => j = k
         /\ \A j \in 1..Len(load) : load[j].count = Cardinality(IssuesOf(f[j]))
         /\ \A j \in 1..Len(load) :
              f[j] = "(unassigned)" => load[j].name = "(unassigned)"
    /\ SumOfCounts(load) = Len(issues)
    /\ \A j, k \in 1..Len(load) :
         j < k =>
           \/ load[j].count > load[k].count
           \/ /\ load[j].count = load[k].count
              /\ NameRank(load[j].name) <= NameRank(load[k].name)

\* counts {A:2, B:2, C:1}, met in the order C, B, A, B, A, give [A, B, C]
C15_Witness ==
  /\ helper = "load" /\ aggpc = "done"
  /\ Len(issues) = 5
  /\ issues[1].assigneeId = Str("uC")
  /\ issues[2].assigneeId = Str("uB")
  /\ issues[3].assigneeId = Str("uA")
  /\ issues[4].assigneeId = Str("uB")
  /\ issues[5].assigneeId = Str("uA")
  /\ load = <<[name |-> "A", count |-> 2], [name |-> "B", count |-> 2],
              [name |-> "C", count |-> 1]>>

\* issues without assignee (assigneeId null or undefined) share one row
C15_WitnessUnassigned ==
  /\ helper = "load" /\ aggpc = "done"
  /\ Len(issues) = 3
  /\ issues[1].assigneeId = Null
  /\ issues[2].assigneeId = Str("uA")
  /\ issues[3].assigneeId = Undefined
  /\ load = <<[name |-> "(unassigned)", count |-> 2], [name |-> "A", count |-> 1]>>

(* ------------------------ properties of fetchOpenIssues ---------------- *)
\* C16: fetchOpenIssues returns exactly one flattened record for each issue the
\* paginated client.issues calls returned whose archivedAt is unset, in the
\* order the server returned them, and never a record for an archived issue,
\* whatever pages the server returns.
C16_OnlyUnarchivedRecords ==
  (fopc = "done" /\ foRet.state = "fulfilled") =>
    LET returned == Flatten(served)
        Unset(n) == n \notin archivedIds
        open == SelectSeq(returned, Unset)
    IN /\ foRet.items = [k \in 1..Len(open) |-> LiteOf(open[k])]
       /\ \A k \in 1..Len(foRet.items) : \A n \in archivedIds :
            foRet.items[k] # LiteOf(n)

(* ---------------------- properties of listIssuesPaginated -------------- *)
\* the lines the claim prescribes for pages ps, the first of them being page n:
\* per page a header with the page number and the issue count, then one line
\* per issue in page order
RECURSIVE PageLines(_, _)
PageLines(ps, n) ==
  IF ps = <<>> THEN <<>>
  ELSE <<[kind |-> "page", n |-> n, count |-> Len(Head(ps).nodes),
          plural |-> (Len(Head(ps).nodes) # 1)]>>
       \o [k \in 1..Len(Head(ps).nodes) |->
             [kind |-> "issue", n |-> Head(ps).nodes[k], count |-> 0,
              plural |-> FALSE]]
       \o PageLines(Tail(ps), n + 1)

IssueLinesIn(lg) == {k \in 1..Len(lg) : lg[k].kind = "issue"}
TotalLinesIn(lg) == {k \in 1..Len(lg) : lg[k].kind = "total"}
IsPrefix(s, t) == Len(s) <= Len(t) /\ s = SubSeq(t, 1, Len(s))

\* C17: for any sequence of pages, the log written by listIssuesPaginated is
\* exactly: for each page in order a header 'Page N - X issue(s)' (also for a
\* page with 0 issues) followed by one line per issue of that page in page
\* order, and finally one 'Total issues listed: T' line; the returned number T
\* equals the total number of issues over all pages and the number of issue
\* lines logged. Before the return the log is a prefix of those lines.
C17_LogStructure ==
  fn = "listIssuesPaginated" =>
    /\ pc = "done" =>
         /\ log = PageLines(served, 1)
                    \o <<[kind |-> "total", n |-> Len(Flatten(served)),
                          count |-> 0, plural |-> FALSE]>>
         /\ ret.state = "fulfilled"
         /\ ret.count = Len(Flatten(served))
         /\ ret.count = Cardinality(IssueLinesIn(log))
    /\ pc # "done" =>
         /\ IsPrefix(log, PageLines(served, 1))
         /\ TotalLinesIn(log) = {}

\* two issues on page 1, none on page 2: two headers, two issue lines, the
\* total, and 2 returned
C17_Witness ==
  /\ fn = "listIssuesPaginated" /\ pc = "done"
  /\ Len(served) = 2
  /\ Len(served[1].nodes) = 2 /\ Len(served[2].nodes) = 0
  /\ Len(log) = 5
  /\ log[4] = [kind |-> "page", n |-> 2, count |-> 0, plural |-> TRUE]
  /\ log[5].kind = "total" /\ log[5].n = 2
  /\ ret.count = 2

\* C18: when client.issues rejects on some page, listIssuesPaginated rejects
\* with that same error, calls client.issues no further time (no retry),
\* returns no count and logs no 'Total issues listed' line.
C18_ClientErrorPropagates ==
  (fn = "listIssuesPaginated" /\ fetchErr # "none") =>
    /\ pc = "failed"
    /\ ret.state = "rejected" /\ ret.error = fetchErr
    /\ ret.count = 0
    /\ Len(calls) = Len(served) + 1
    /\ inflight = 0
    /\ ~ENABLED ListFetch
    /\ TotalLinesIn(log) = {}

\* the call for page 2 rejected with "E1" after page 1 was listed
C18_Witness ==
  /\ fn = "listIssuesPaginated" /\ pc = "failed"
  /\ fetchErr = "E1"
  /\ Len(served) = 1 /\ Len(calls) = 2
  /\ Cardinality(IssueLinesIn(log)) = 2
  /\ ret.state = "rejected" /\ ret.error = "E1"

(* --------------------------- properties of myIssues -------------------- *)
\* the numbered lines of the log, in order
NumberedLines == SelectSeq(log, LAMBDA l : l.kind = "issue")

\* C19: in myIssues the number printed in front of the k-th listed issue is k:
\* numbering starts at 1, increases by exactly 1 per issue, continues across
\* page boundaries without reset, gap or duplicate, and the final 'Total
\* issues' value equals the last number printed (0 when no issue is listed).
\* The k-th listed issue is the k-th issue the server returned.
C19_RunningNumbers ==
  fn = "myIssues" =>
    /\ \A k \in 1..Len(NumberedLines) :
         /\ NumberedLines[k].num = k
         /\ NumberedLines[k].node = Flatten(served)[k]
    /\ pc = "done" =>
         /\ log[Len(log)] = MyTotalLine(Len(NumberedLines))
         /\ Len(NumberedLines) = Len(Flatten(served))
    /\ pc # "done" => \A k \in 1..Len(log) : log[k].kind # "total"

\* two issues on page 1 and one on page 2 are numbered 1, 2, 3 and the total
\* is 3
C19_Witness ==
  /\ fn = "myIssues" /\ pc = "done"
  /\ Len(served) = 2
  /\ Len(served[1].nodes) = 2 /\ Len(served[2].nodes) = 1
  /\ Len(NumberedLines) = 3
  /\ NumberedLines[3].num = 3
  /\ log[Len(log)] = MyTotalLine(3)

\* no issue listed: the total is 0
C19_WitnessNone ==
  /\ fn = "myIssues" /\ pc = "done"
  /\ Flatten(served) = <<>>
  /\ log = <<ViewerLine, HeadingLine, MyTotalLine(0)>>

(* ------------------------ properties of GET /api/issues ---------------- *)
\* the limit parameters that are numeric, and their values; the claim does not
\* say which the empty string is
NumericLimits ==
  {Str("0"), Str("-5"), Str("1"), Str("7"), Str("200"), Str("500"),
   Str("501"), Str("1000")}
InvalidLimits == {Undefined, Str("abc")}
Clamped(v) == IF v < 1 THEN 1 ELSE IF v > 500 THEN 500 ELSE v

\* C20: the limit applied by GET /api/issues is always an integer in [1, 500]:
\* a numeric limit parameter is clamped into that range, and a missing or
\* non-numeric limit parameter (e.g. limit=abc) defaults to 200, so that a
\* request with an invalid limit returns all matches up to 200.
C20_LimitInRange ==
  /\ apipc \in {"fetch", "await", "respond", "done"} =>
       /\ ~apiLimit.nan
       /\ apiLimit.v \in 1..500
       /\ apiLimitParam \in NumericLimits =>
            apiLimit.v = Clamped(StringToNumber(apiLimitParam.s).v)
       /\ apiLimitParam \in InvalidLimits => apiLimit.v = 200
  /\ (apipc = "done" /\ apiStatus = 200 /\ apiLimitParam \in InvalidLimits) =>
       apiSent = (IF apiMatched < 200 THEN apiMatched ELSE 200)

\* C21: for every GET /api/issues request, whichever branch handles it
\* (identifier lookup or recent-issues search), at most 500 issues are fetched
\* from Linear and the response contains at most min(limit, 500) issues,
\* however many pages the server has.
C21_FetchAndPayloadCapped ==
  /\ apiFetched <= 500
  /\ (apipc = "done" /\ apiStatus = 200) =>
       /\ apiSent <= 500
       /\ ~apiLimit.nan => apiSent <= apiLimit.v

(* ----------------------- properties of the webhook server -------------- *)

\* the Linear-Signature header of request r is the digest of its raw body
SignatureMatches(r) ==
  /\ webhooks[r].signature.t = "string"
  /\ TrimChars(webhooks[r].signature.s) = HmacHex(RawOf(webhooks[r].rawBody))

\* number of broadcastEvent calls made for request r
BroadcastsOf(r) == Len(SelectSeq(broadcasts, LAMBDA e : e = EventOf(r)))

\* C22: POST /linear-webhook answers 401 and broadcasts nothing when the
\* Linear-Signature header is missing or does not match the HMAC of the raw
\* body; an event is broadcast through the endpoint only after its signature
\* was verified; and a verified request whose body is parseable JSON is
\* broadcast exactly once and answered with 200.
C22_VerifiedEventBroadcastOnce ==
  \A r \in 1..MaxWebhooks :
    /\ (webhooks[r].pc # "none" /\ ~SignatureMatches(r)) =>
         webhooks[r].status = 401 /\ BroadcastsOf(r) = 0
    /\ BroadcastsOf(r) > 0 => SignatureMatches(r)
    /\ (webhooks[r].pc = "done" /\ SignatureMatches(r)
          /\ ~JsonParse(RawOf(webhooks[r].rawBody)).threw) =>
         webhooks[r].status = 200 /\ BroadcastsOf(r) = 1

(* -------------------- properties of the workspace snapshot ------------- *)

\* per-entity lookups issued and not yet settled
LookupsInFlight == RelationsInFlight(snapWorkers) + snapProjectsInFlight

\* C26: during a workspace-snapshot run at most CONCURRENCY issue workers
\* are active and the number of per-entity lookups in flight stays within
\* what CONCURRENCY workers can have in flight (one lookup per relation of
\* an issue), however many issues and distinct projects there are.
C26_LookupsBounded ==
  /\ ActiveWorkers(snapWorkers) <= CONCURRENCY
  /\ LookupsInFlight <= CONCURRENCY * Cardinality(IssueRelations)

(* ---------------- properties of repeated helper calls ------------------ *)

C27_WitnessSorted ==
  /\ Len(givenIssues) = 3
  /\ Len(returns) >= 2
  /\ returns[1].helper = "active" /\ returns[2].helper = "active"
  /\ Len(returns[2].value) = 2
  /\ returns[2].value[1].projectId = "p1" /\ returns[2].value[1].openCount = 2
  /\ givenIssues[1].projectId = Str("p2")

(* ------------------------ properties of issuesFiltered ----------------- *)

\* C28: resolveRelation invokes a callable relation exactly once (and no
\* relation more than once), and in a run of issuesFiltered the state
\* relation of every issue is resolved at most once, whatever --label and
\* --state are.
C28_SingleResolve ==
  /\ rrCalls <= 1
  /\ (rrpc = "done" /\ IsFunction(rel)) => rrCalls = 1
  /\ \A k \in DOMAIN stateResolves : stateResolves[k] <= 1

(* --------------------------- properties of run events ------------------ *)

\* the serial numbers of the run events written to connection n (what follows
\* the hello)
RunEventsOf(n) == Tail(connections[n].received)

\* the number of events emitted when connection n closed; now, while it is open
EndOf(n) ==
  IF connections[n].closed THEN connections[n].closedAt ELSE Len(emitted)

\* the entries of all stream lists
Listed == UNION {{runStreams[j].val[k] : k \in 1..Len(runStreams[j].val)} :
                   j \in 1..Len(runStreams)}

\* C29: every event written to a connection was emitted for the runId the
\* connection subscribed with, after its subscription and not after its
\* close event; no two connections ever got the same client id; and a closed
\* connection is in no stream list, while an open one is in the list of its
\* runId and in no other.
C29_StreamsIsolated ==
  /\ \A n \in 1..Len(connections) :
       \A k \in 1..Len(RunEventsOf(n)) :
         LET j == RunEventsOf(n)[k]
         IN /\ emitted[j].runId = connections[n].runId
            /\ connections[n].subscribedAt < j /\ j <= EndOf(n)
  /\ \A n, o \in 1..Len(connections) :
       connections[n].id = connections[o].id => n = o
  /\ \A n \in 1..Len(connections) : connections[n].id < nextClientId
  /\ \A n \in 1..Len(connections) :
       \A j \in 1..Len(runStreams) :
         (\E k \in 1..Len(runStreams[j].val) : runStreams[j].val[k].res = n)
           <=> (~connections[n].closed /\ runStreams[j].key = connections[n].runId)
  /\ \A c \in Listed : connections[c.res].id = c.id

\* a connection on each of two runs: the first got the first event of its run
\* and was closed before the second, the other got neither
C29_Witness ==
  /\ Len(connections) = 2
  /\ connections[1].runId = "r1" /\ connections[2].runId = "r2"
  /\ connections[1].closed /\ ~connections[2].closed
  /\ Len(emitted) = 2
  /\ emitted[1].runId = "r1" /\ emitted[2].runId = "r1"
  /\ RunEventsOf(1) = <<1>>
  /\ RunEventsOf(2) = <<>>
  /\ connections[2].subscribedAt = 0

\* the events emitted for runId after the at-th and up to the to-th, in order
RECURSIVE EmittedBetween(_, _, _)
EmittedBetween(runId, at, to) ==
  IF to <= at THEN <<>>
  ELSE IF emitted[to].runId = runId
    THEN Append(EmittedBetween(runId, at, to - 1), to)
    ELSE EmittedBetween(runId, at, to - 1)

\* C30: what a connection received is exactly the events emitted for its
\* runId between its subscription and its close, in emission order; so an
\* event emitted while no connection was subscribed to its runId was written to
\* nobody, then or later.
C30_NeverReplayed ==
  /\ \A n \in 1..Len(connections) :
       RunEventsOf(n) =
         EmittedBetween(connections[n].runId, connections[n].subscribedAt, EndOf(n))
  /\ \A j \in 1..Len(emitted) :
       (\A n \in 1..Len(connections) :
          ~(/\ connections[n].runId = emitted[j].runId
            /\ connections[n].subscribedAt < j /\ j <= EndOf(n)))
       => \A n \in 1..Len(connections) :
            \A k \in 1..Len(RunEventsOf(n)) : RunEventsOf(n)[k] # j

\* run r1 was started with nobody subscribed; the connection that subscribed
\* next got the later event of the run and not "started"
C30_Witness ==
  /\ Len(emitted) = 2
  /\ emitted[1] = [runId |-> "r1", kind |-> "started"]
  /\ emitted[2] = [runId |-> "r1", kind |-> "finished"]
  /\ Len(connections) = 1
  /\ connections[1].runId = "r1" /\ connections[1].subscribedAt = 1
  /\ connections[1].received = <<"hello", 2>>

====
